---- MODULE Spec2Model ----
(***************************************************************************)
(* Resume screening backend: the upload / analyze / getAnalysis handlers   *)
(* of resumeController.ts, the chat handlers of chatController.ts and the  *)
(* RAG service (ragService.ts) they call, as one state machine.            *)
(*                                                                         *)
(* Node runs the handlers on one thread: a handler runs without            *)
(* interruption from one `await` to the next, so every action below is the *)
(* code between two awaits, and the provider's answer to the awaited call  *)
(* is the action's input.  A provider call that never answers is the       *)
(* action never being taken.                                               *)
(*                                                                         *)
(* A document's text is a sequence of paragraphs; a paragraph is a         *)
(* sequence of sentence lengths (characters) and a flag telling whether    *)
(* its line holds one of the keywords of chatController's second fallback. *)
(***************************************************************************)
EXTENDS Integers, Sequences, FiniteSets, TLC

\* ------------------------------------------------------------------ bounds
NumProcs == 2
MaxAnalyses == 2
MaxRequests == 3

Procs == 1..NumProcs
Ids == 1..MaxAnalyses
\* 0 stands for a request that carries no analysisId
NoId == 0
ReqIds == {NoId} \cup Ids

\* ------------------------------------------------------- program constants
chunkSize == 800
TopK == 5
MaxParagraphContext == 10
MaxLineContext == 5
MinParagraphChars == 50
MinLineChars == 20
DegradedScore == 0
DefaultScore == 85
MaxListedSkills == 10

\* significant bits of a floating-point number
MantissaBits == 7

PREFERRED_MODELS ==
  << "models/gemini-2.5-flash-lite", "models/gemini-2.0-flash-lite",
     "models/gemini-2.0-flash", "models/gemini-2.5-flash",
     "models/gemini-2.5-pro" >>

\* --------------------------------------------------------------- documents
EmptyText == << >>
ShortText == << [sents |-> <<10>>, key |-> FALSE] >>
KeyText == << [sents |-> <<30>>, key |-> TRUE] >>
LongText == << [sents |-> <<500, 400>>, key |-> FALSE] >>

TxtFile(t) == [pdf |-> FALSE, content |-> t]
PdfFile(t) == [pdf |-> TRUE, content |-> t]

\* the second sentence of LongText as a text of its own
EchoText == << [sents |-> <<400>>, key |-> FALSE] >>

\* three paragraphs: a keyword line, a long paragraph of two sentences, a line
TriText ==
  << [sents |-> <<60>>, key |-> TRUE], [sents |-> <<500, 400>>, key |-> FALSE],
     [sents |-> <<25>>, key |-> FALSE] >>

ResumeFiles == {TxtFile(ShortText), PdfFile(LongText)}
JobFiles == {TxtFile(EmptyText), TxtFile(ShortText)}

\* messages of the exceptions a step of the try block may raise
ErrMessages == {"", "boom"}
Questions == {"", " ", "which projects?"}

RECURSIVE SumSeq(_)
SumSeq(s) == IF s = << >> THEN 0 ELSE Head(s) + SumSeq(Tail(s))

\* characters of sentences joined by single spaces
JoinedLen(sents) == IF sents = << >> THEN 0 ELSE SumSeq(sents) + Len(sents) - 1

\* pdfParser.ts: a PDF whose parse fails yields '', anything else its text
extractText(data, parseOk) ==
  IF data.pdf THEN (IF parseOk THEN data.content ELSE EmptyText)
  ELSE data.content

\* the sentence loop with the joining space left out of the length test
RECURSIVE PackSentencesNoSpace(_, _, _, _)
PackSentencesNoSpace(sents, cur, para, acc) ==
  IF sents = << >>
  THEN IF cur # << >> THEN Append(acc, [para |-> para, sents |-> cur]) ELSE acc
  ELSE LET s == Head(sents) IN
       IF JoinedLen(cur) + s <= chunkSize
       THEN PackSentencesNoSpace(Tail(sents), Append(cur, s), para, acc)
       ELSE PackSentencesNoSpace(Tail(sents), <<s>>, para,
              IF cur # << >> THEN Append(acc, [para |-> para, sents |-> cur])
              ELSE acc)

\* the sentence loop of processDocument: cur is the current chunk
RECURSIVE PackSentences(_, _, _, _)
PackSentences(sents, cur, para, acc) ==
  IF sents = << >>
  THEN IF cur # << >> THEN Append(acc, [para |-> para, sents |-> cur]) ELSE acc
  ELSE LET s == Head(sents) IN
       IF JoinedLen(cur) + 1 + s <= chunkSize
       THEN PackSentences(Tail(sents), Append(cur, s), para, acc)
       ELSE PackSentences(Tail(sents), <<s>>, para,
              IF cur # << >> THEN Append(acc, [para |-> para, sents |-> cur])
              ELSE acc)

RECURSIVE ChunkParagraphs(_, _, _)
ChunkParagraphs(text, i, acc) ==
  IF i > Len(text) THEN acc
  ELSE LET p == text[i].sents IN
       IF p = << >> THEN ChunkParagraphs(text, i + 1, acc)
       ELSE IF JoinedLen(p) <= chunkSize
       THEN ChunkParagraphs(text, i + 1, Append(acc, [para |-> i, sents |-> p]))
       ELSE ChunkParagraphs(text, i + 1, PackSentences(p, << >>, i, acc))

processDocument(text) == ChunkParagraphs(text, 1, << >>)

\* Vectors have two integer components and an integer length.  The provider's
\* vector and the mock vector of lines 164-170 are functions of the chunk's
\* text; the samples below stand for them.
providerEmbedding(chunk) == IF chunk.para % 2 = 1 THEN << 3, 4 >> ELSE << 4, 3 >>
mockEmbedding(chunk) ==
  IF SumSeq(chunk.sents) % 2 = 0 THEN << 5, 0 >> ELSE << 0, 5 >>

\* an entry whose mock vector is made from the chunk's place in the batch
EmbeddingEntryByPlace(i, chunk, src) ==
  [id |-> i - 1, text |-> chunk,
   embedding |-> IF src = "provider" THEN providerEmbedding(chunk)
                 ELSE IF i % 2 = 0 THEN << 0, 5 >> ELSE << 5, 0 >>]

\* an entry numbered from one instead of from zero
EmbeddingEntryShifted(i, chunk, src) ==
  [id |-> i, text |-> chunk,
   embedding |-> IF src = "provider" THEN providerEmbedding(chunk)
                 ELSE mockEmbedding(chunk)]

\* The mock vector has a fixed number of components (768 in the code, two
\* here).  The provider's vector is stored as it arrives, whatever its
\* length: wideEmbedding stands for a provider vector of another length.
wideEmbedding(chunk) == providerEmbedding(chunk) \o << 0 >>

\* one entry of generateEmbeddings' result; src names the origin of the vector
EmbeddingEntry(i, chunk, src) ==
  [id |-> i - 1, text |-> chunk,
   embedding |-> IF src = "provider" THEN providerEmbedding(chunk)
                 ELSE IF src = "wide" THEN wideEmbedding(chunk)
                 ELSE mockEmbedding(chunk)]

\* ------------------------------------------------------------------- state
VARIABLES
  analysisStorage,   \* resumeController: id -> analysis record
  processingQueue,   \* resumeController: ids of the runs in flight
  vectorStore,       \* ragService: <<id, type>> -> embeddings
  workingModelName,  \* ragService: the cached model ("" = none)
  chatHistory,       \* chatController: id -> entries
  globalStorage,     \* what `(global as any).analysisStorage || {}` yields
  nextId,            \* number of analyses created
  nreq,              \* number of requests received
  pc, req, loc,      \* per handler in flight: position, request, locals
  steps,             \* per handler in flight: what its request has done
  last,              \* the latest response, with its request and its steps
  storeWrites        \* <<id, type>> -> number of storeEmbeddings calls

vars == << analysisStorage, processingQueue, vectorStore, workingModelName,
           chatHistory, globalStorage, nextId, nreq, pc, req, loc, steps,
           last, storeWrites >>

Keys == Ids \X {"resume", "job"}

NoRequest == [op |-> "none", id |-> NoId, question |-> ""]
Loc0 == [resumeText |-> EmptyText, jobText |-> EmptyText, doc |-> "resume",
         chunks |-> << >>, embs |-> << >>, resumeEmbs |-> << >>,
         jobEmbs |-> << >>, k |-> 0, probe |-> "", ret |-> "idle",
         rows |-> << >>, analysisText |-> << >>,
         query |-> << >>, found |-> << >>, context |-> << >>]
Resp0 == [code |-> 0, message |-> "", error |-> "", details |-> "",
          analysisId |-> NoId, results |-> << >>, analysis |-> << >>,
          answer |-> "", sources |-> << >>, history |-> << >>]

Reply(code, message) == [Resp0 EXCEPT !.code = code, !.message = message]
Failure(code, error) == [Resp0 EXCEPT !.code = code, !.error = error]

NewAnalysis(resume, job) ==
  [status |-> "uploaded", resume |-> resume, jobDescription |-> job,
   error |-> "", results |-> << >>]

Init ==
  /\ analysisStorage = << >>
  /\ processingQueue = {}
  /\ vectorStore = << >>
  /\ workingModelName = ""
  /\ chatHistory = [i \in Ids |-> << >>]
  /\ globalStorage = << >>
  /\ nextId = 0
  /\ nreq = 0
  /\ pc = [p \in Procs |-> "idle"]
  /\ req = [p \in Procs |-> NoRequest]
  /\ loc = [p \in Procs |-> Loc0]
  /\ steps = [p \in Procs |-> {}]
  /\ last = [n |-> 0, req |-> NoRequest, resp |-> Resp0, steps |-> {}]
  /\ storeWrites = [key \in Keys |-> 0]

\* a request arrives while the budget lasts; the free handler with the lowest
\* number takes it (handlers are interchangeable)
CanReceive(p) ==
  /\ nreq < MaxRequests
  /\ pc[p] = "idle"
  /\ \A q \in Procs : q < p => pc[q] # "idle"

\* the response r to request rq, sent after the steps st
Answer(rq, r, st) ==
  last' = [n |-> last.n + 1, req |-> rq, resp |-> r, steps |-> st]

\* a handler that answers before its first await
Immediate(p, rq, r) ==
  /\ CanReceive(p)
  /\ nreq' = nreq + 1
  /\ Answer(rq, r, {})
  /\ UNCHANGED << pc, req, loc, steps >>

\* a handler in flight answers and ends
Finish(p, r, st) ==
  /\ Answer(req[p], r, st)
  /\ pc' = [pc EXCEPT ![p] = "idle"]
  /\ req' = [req EXCEPT ![p] = NoRequest]
  /\ loc' = [loc EXCEPT ![p] = Loc0]
  /\ steps' = [steps EXCEPT ![p] = {}]

AnalyzeRequest(id) == [op |-> "analyze", id |-> id, question |-> ""]

\* ---------------------------------------------------------- resumeController
\* lines 19-22
UploadMissing(p) ==
  /\ Immediate(p, [op |-> "upload", id |-> NoId, question |-> ""],
               Failure(400, "Both resume and job description files are required"))
  /\ UNCHANGED << analysisStorage, processingQueue, vectorStore,
                  workingModelName, chatHistory, globalStorage, nextId,
                  storeWrites >>

\* lines 27-53; the identifier is fresh
uploadFiles(p, resume, job) ==
  /\ nextId < MaxAnalyses
  /\ LET id == nextId + 1 IN
     /\ nextId' = id
     /\ analysisStorage' = (id :> NewAnalysis(resume, job)) @@ analysisStorage
     /\ Immediate(p, [op |-> "upload", id |-> id, question |-> ""],
                  [Reply(200, "Files uploaded successfully")
                     EXCEPT !.analysisId = id])
  /\ UNCHANGED << processingQueue, vectorStore, workingModelName, chatHistory,
                  globalStorage, storeWrites >>

\* lines 70-73: no identifier, or no record stored under it
InvalidAnalysisId(id) == id = NoId \/ id \notin DOMAIN analysisStorage

\* the guard of lines 76-83 left out
NeverInProgress(id) == FALSE

\* lines 76-83: the re-entrancy guard
AlreadyInProgress(id) == id \in processingQueue

\* the check of lines 89-97 left out
NeverCompleted(id) == FALSE

\* lines 89-97
AlreadyCompleted(id) == analysisStorage[id].status = "completed"

\* the check of lines 100-106 left out
NeverFailed(id) == FALSE

\* lines 100-106
PreviousAttemptFailed(id) == analysisStorage[id].status = "error"

\* `error.message || 'Unknown error'` and `analysis.error || 'Unknown error'`
ErrorDetail(msg) == IF msg = "" THEN "Unknown error" ELSE msg

\* lines 60-113: everything analyzeResume does before its first await
analyzeResume(p, id) ==
  /\ IF InvalidAnalysisId(id)
     THEN /\ Immediate(p, AnalyzeRequest(id), Failure(400, "Invalid analysis ID"))
          /\ UNCHANGED << analysisStorage, processingQueue >>
     ELSE IF AlreadyInProgress(id)
     THEN /\ Immediate(p, AnalyzeRequest(id),
                       [Reply(202, "Analysis already in progress")
                          EXCEPT !.analysisId = id])
          /\ UNCHANGED << analysisStorage, processingQueue >>
     ELSE IF AlreadyCompleted(id)
     THEN /\ Immediate(p, AnalyzeRequest(id),
                       [Reply(200, "Analysis already completed")
                          EXCEPT !.analysisId = id,
                                 !.results = analysisStorage[id].results])
          /\ UNCHANGED << analysisStorage, processingQueue >>
     ELSE IF PreviousAttemptFailed(id)
     THEN /\ Immediate(p, AnalyzeRequest(id),
                       [Failure(500, "Previous analysis attempt failed")
                          EXCEPT !.details =
                                   ErrorDetail(analysisStorage[id].error)])
          /\ UNCHANGED << analysisStorage, processingQueue >>
     ELSE /\ CanReceive(p)
          /\ nreq' = nreq + 1
          /\ analysisStorage' =
               [analysisStorage EXCEPT ![id].status = "processing"]
          /\ processingQueue' = processingQueue \cup {id}
          /\ pc' = [pc EXCEPT ![p] = "extract"]
          /\ req' = [req EXCEPT ![p] = AnalyzeRequest(id)]
          /\ UNCHANGED << loc, steps, last >>
  /\ UNCHANGED << vectorStore, workingModelName, chatHistory, globalStorage,
                  nextId, storeWrites >>

\* the catch block without line 194: the detail is answered but not stored
FailRunDetailLost(p, msg, st) ==
  LET id == req[p].id IN
  /\ analysisStorage' = [analysisStorage EXCEPT ![id].status = "error"]
  /\ processingQueue' = processingQueue \ {id}
  /\ Finish(p, [Failure(500, "Error during analysis processing")
                  EXCEPT !.details = ErrorDetail(msg)], st)

\* the catch block without the finally block: the identifier stays queued
FailRunStillQueued(p, msg, st) ==
  LET id == req[p].id IN
  /\ analysisStorage' =
       [analysisStorage EXCEPT ![id].status = "error",
                               ![id].error = ErrorDetail(msg)]
  /\ processingQueue' = processingQueue
  /\ Finish(p, [Failure(500, "Error during analysis processing")
                  EXCEPT !.details = ErrorDetail(msg)], st)

\* lines 191-205: the catch block and the finally block
FailRun(p, msg, st) ==
  LET id == req[p].id IN
  /\ analysisStorage' =
       [analysisStorage EXCEPT ![id].status = "error",
                               ![id].error = ErrorDetail(msg)]
  /\ processingQueue' = processingQueue \ {id}
  /\ Finish(p, [Failure(500, "Error during analysis processing")
                  EXCEPT !.details = ErrorDetail(msg)], st)

\* lines 120-136, an exception escaping extractText or processDocument (the
\* calls of the try block that catch nothing themselves)
ExtractThrows(p) ==
  /\ pc[p] = "extract"
  /\ \E msg \in ErrMessages : FailRun(p, msg, steps[p] \cup {"extract"})
  /\ UNCHANGED << vectorStore, workingModelName, chatHistory, globalStorage,
                  nextId, nreq, storeWrites >>

\* lines 120-136: both texts extracted, both documents chunked
ExtractAndChunk(p) ==
  /\ pc[p] = "extract"
  /\ \E rOk \in BOOLEAN, jOk \in BOOLEAN :
       LET a == analysisStorage[req[p].id]
           rt == extractText(a.resume, rOk)
           jt == extractText(a.jobDescription, jOk)
       IN loc' = [loc EXCEPT ![p] = [Loc0 EXCEPT !.resumeText = rt,
                                                 !.jobText = jt,
                                                 !.doc = "resume",
                                                 !.chunks = processDocument(rt)]]
  /\ pc' = [pc EXCEPT ![p] = "generate"]
  /\ steps' = [steps EXCEPT ![p] = @ \cup {"extract", "chunk"}]
  /\ UNCHANGED << analysisStorage, processingQueue, vectorStore,
                  workingModelName, chatHistory, globalStorage, nextId, nreq,
                  req, last, storeWrites >>

\* generateEmbeddings returned embs for the document loc[p].doc (lines 142-147)
AfterGenerate(p, embs) ==
  IF loc[p].doc = "resume"
  THEN /\ loc' = [loc EXCEPT ![p].resumeEmbs = embs, ![p].embs = << >>,
                             ![p].doc = "job",
                             ![p].chunks = processDocument(loc[p].jobText)]
       /\ pc' = [pc EXCEPT ![p] = "generate"]
  ELSE /\ loc' = [loc EXCEPT ![p].jobEmbs = embs, ![p].embs = << >>]
       /\ pc' = [pc EXCEPT ![p] = "store_resume"]

\* ragService lines 122-141: generateEmbeddings up to its first provider call
generateEmbeddings(p) ==
  /\ pc[p] = "generate"
  /\ IF loc[p].chunks = << >>
     THEN AfterGenerate(p, << >>)
     ELSE IF workingModelName # ""
     THEN /\ pc' = [pc EXCEPT ![p] = "embed"]
          /\ loc' = [loc EXCEPT ![p].embs = << >>]
     ELSE /\ pc' = [pc EXCEPT ![p] = "probe"]
          /\ loc' = [loc EXCEPT ![p].embs = << >>, ![p].k = 1,
                                ![p].ret = "embed"]
  /\ steps' = [steps EXCEPT ![p] = @ \cup {"embed"}]
  /\ UNCHANGED << analysisStorage, processingQueue, vectorStore,
                  workingModelName, chatHistory, globalStorage, nextId, nreq,
                  req, last, storeWrites >>

\* what a probe request may come to: the text asked for ("ok"), some other
\* text ("other"), or an exception ("error")
ProbeMisses == {"other", "error"}

\* ragService lines 38-55: the probe of PREFERRED_MODELS[k] answered as asked
ProbeSucceeds(p) ==
  /\ pc[p] = "probe"
  /\ workingModelName' = PREFERRED_MODELS[loc[p].k]
  /\ pc' = [pc EXCEPT ![p] = loc[p].ret]
  /\ loc' = [loc EXCEPT ![p].probe = "ok"]
  /\ UNCHANGED << analysisStorage, processingQueue, vectorStore, chatHistory,
                  globalStorage, nextId, nreq, req, last, steps,
                  storeWrites >>

\* ragService lines 50-76: the probe answered some other text (the test of line
\* 50 is false) or raised; the loop goes on, and after the last model the
\* fallback loop caches the first model unprobed
ProbeFails(p) ==
  /\ pc[p] = "probe"
  /\ \E outcome \in ProbeMisses :
       IF loc[p].k < Len(PREFERRED_MODELS)
       THEN /\ loc' = [loc EXCEPT ![p].k = @ + 1, ![p].probe = outcome]
            /\ UNCHANGED << pc, workingModelName >>
       ELSE /\ workingModelName' = PREFERRED_MODELS[1]
            /\ pc' = [pc EXCEPT ![p] = loc[p].ret]
            /\ loc' = [loc EXCEPT ![p].probe = outcome]
  /\ UNCHANGED << analysisStorage, processingQueue, vectorStore, chatHistory,
                  globalStorage, nextId, nreq, req, last, steps, storeWrites >>

\* ragService lines 144-178: embedContent for the next chunk answered (a
\* provider vector) or failed (the mock vector computed from the chunk)
EmbedChunkFrom(p, src) ==
  /\ pc[p] = "embed"
  /\ LET i == Len(loc[p].embs) + 1
         embs == Append(loc[p].embs,
                        EmbeddingEntry(i, loc[p].chunks[i], src))
     IN IF i < Len(loc[p].chunks)
        THEN /\ loc' = [loc EXCEPT ![p].embs = embs]
             /\ UNCHANGED pc
        ELSE AfterGenerate(p, embs)
  /\ UNCHANGED << analysisStorage, processingQueue, vectorStore,
                  workingModelName, chatHistory, globalStorage, nextId, nreq,
                  req, last, steps, storeWrites >>

EmbedChunk(p) == \E src \in {"provider", "mock"} : EmbedChunkFrom(p, src)

\* ragService lines 148-155: embedContent answered with a vector that has not
\* the mock vector's number of components
EmbedChunkWide(p) == EmbedChunkFrom(p, "wide")

\* a store whose key leaves out the type of the document
storeEmbeddingsUntyped(p, type, embeddings) ==
  LET key == << req[p].id, "resume" >> IN
  /\ vectorStore' = (key :> embeddings) @@ vectorStore
  /\ storeWrites' = [storeWrites EXCEPT ![key] = @ + 1]

\* ragService lines 193-204
storeEmbeddings(p, type, embeddings) ==
  LET key == << req[p].id, type >> IN
  /\ vectorStore' = (key :> embeddings) @@ vectorStore
  /\ storeWrites' = [storeWrites EXCEPT ![key] = @ + 1]

\* lines 153-154
StoreResume(p) ==
  /\ pc[p] = "store_resume"
  /\ storeEmbeddings(p, "resume", loc[p].resumeEmbs)
  /\ pc' = [pc EXCEPT ![p] = "store_job"]
  /\ steps' = [steps EXCEPT ![p] = @ \cup {"store"}]
  /\ UNCHANGED << analysisStorage, processingQueue, workingModelName,
                  chatHistory, globalStorage, nextId, nreq, req, loc, last >>

\* lines 157-158
StoreJob(p) ==
  /\ pc[p] = "store_job"
  /\ storeEmbeddings(p, "job", loc[p].jobEmbs)
  /\ pc' = [pc EXCEPT ![p] = "match"]
  /\ steps' = [steps EXCEPT ![p] = @ \cup {"store"}]
  /\ UNCHANGED << analysisStorage, processingQueue, workingModelName,
                  chatHistory, globalStorage, nextId, nreq, req, loc, last >>

\* The provider's analysis is a text; split at its blank lines it is a
\* sequence of blocks.  A block is its text (name), the section titles it
\* contains (marks), the number of its first 'Match Score: N%' line (score,
\* << >> when it has none) and whether it is white space only (blank).
Titles == {"Strengths Identified", "Gaps Identified", "Key Insights",
           "Resume Summary"}

Block(name, marks, score) ==
  [name |-> name, marks |-> marks, score |-> score, blank |-> FALSE]

BlankBlock == [name |-> " ", marks |-> {}, score |-> << >>, blank |-> TRUE]

\* matchService lines 560-561: the number of the first score line of the text,
\* << >> for 'N/A'
overallMatch(text) ==
  LET scored == SelectSeq(text, LAMBDA b : b.score # << >>)
  IN IF scored = << >> THEN << >> ELSE scored[1].score

\* sections.findIndex(section => section.includes(title)), counted from one;
\* 0 when no block contains the title
findIndex(text, title) ==
  IF \E i \in 1..Len(text) : title \in text[i].marks
  THEN CHOOSE i \in 1..Len(text) :
         /\ title \in text[i].marks
         /\ \A j \in 1..(i - 1) : title \notin text[j].marks
  ELSE 0

\* the blocks from the first title on, the end title not looked for
SectionFromStart(text, start, end) ==
  IF start # 0
  THEN SelectSeq(SubSeq(text, start + 1, Len(text)), LAMBDA b : ~b.blank)
  ELSE << >>

\* matchService lines 569-570, 574-575, 579-580: the blocks between the two
\* titles that are not blank, none unless both titles were found
SectionBetween(text, start, end) ==
  IF start # 0 /\ end # 0
  THEN SelectSeq(SubSeq(text, start + 1, end - 1), LAMBDA b : ~b.blank)
  ELSE << >>

\* matchService lines 557-603
parseAnalysisText(text) ==
  LET strengthsStartIndex == findIndex(text, "Strengths Identified")
      gapsStartIndex == findIndex(text, "Gaps Identified")
      insightsStartIndex == findIndex(text, "Key Insights")
      summaryStartIndex == findIndex(text, "Resume Summary")
  IN [overallMatch |-> overallMatch(text),
      strengths |-> SectionBetween(text, strengthsStartIndex, gapsStartIndex),
      gaps |-> SectionBetween(text, gapsStartIndex, insightsStartIndex),
      insights |-> SectionBetween(text, insightsStartIndex, summaryStartIndex),
      summary |-> IF summaryStartIndex # 0
                  THEN SubSeq(text, summaryStartIndex + 1, Len(text))
                  ELSE << >>]

\* the analysis of the prompt's example (lines 476-514)
ExampleAnalysis ==
  << Block("Resume Uploaded", {}, << >>),
     Block("Match Score: 82%", {"Strengths Identified"}, << 82 >>),
     Block("3+ years experience with Node.js", {}, << >>),
     Block("Solid experience with PostgreSQL", {}, << >>),
     Block("Gaps Identified", {"Gaps Identified"}, << >>),
     Block("No explicit experience with Kubernetes", {}, << >>),
     Block("Key Insights", {"Key Insights"}, << >>),
     Block("Could excel with moderate onboarding", {}, << >>),
     Block("Resume Summary", {"Resume Summary"}, << >>),
     Block("Backend engineer", {}, << >>) >>

\* what the provider call of generateStructuredAnalysis may come to: a text
\* (<< text >>) or an exception (<< >>)
ProviderAnalyses == { << >>, << ExampleAnalysis >> }

\* matchService calculateMatchScore: the object parseAnalysisText returns has no
\* finalVerdict, no experienceMatch and no improvements, so the primary path
\* yields the default score and empty lists beside the parsed analysis; a
\* provider failure yields the catch block's result
calculateMatchScore(response) ==
  IF response # << >>
  THEN [score |-> DefaultScore, strengths |-> << >>, gaps |-> << >>,
        insights |-> << >>,
        structuredAnalysis |-> << parseAnalysisText(response[1]) >>]
  ELSE [score |-> DegradedScore, strengths |-> << >>, gaps |-> << >>,
        insights |-> << "Error occurred during matching" >>,
        structuredAnalysis |-> << >>]

\* lines 169-178
AnalysisResults(m, resumeText, jobText) ==
  [matchScore |-> m.score, strengths |-> m.strengths, gaps |-> m.gaps,
   insights |-> m.insights, structuredAnalysis |-> m.structuredAnalysis,
   resumeText |-> resumeText, jobDescriptionText |-> jobText]

\* lines 164-190 and 201-205: the score arrives, the run completes
CompleteRunWith(p, response) ==
  /\ pc[p] = "match"
  /\ LET id == req[p].id
         results == AnalysisResults(calculateMatchScore(response),
                                    loc[p].resumeText, loc[p].jobText)
     IN /\ analysisStorage' =
             [analysisStorage EXCEPT ![id].status = "completed",
                                     ![id].results = << results >>]
        /\ Finish(p, [Reply(200, "Analysis completed successfully")
                        EXCEPT !.analysisId = id,
                               !.results = << results >>],
                  steps[p] \cup {"score"})
        /\ processingQueue' = processingQueue \ {id}
  /\ UNCHANGED << vectorStore, workingModelName, chatHistory, globalStorage,
                  nextId, nreq, storeWrites >>

CompleteRun(p) == \E response \in ProviderAnalyses : CompleteRunWith(p, response)

\* the same step where the response the provider is about to give is known
CompleteRunParsed(p) == CompleteRunWith(p, loc[p].analysisText)

\* lines 212-232
getAnalysis(p, id) ==
  /\ IF id = NoId \/ id \notin DOMAIN analysisStorage
     THEN Immediate(p, [op |-> "getAnalysis", id |-> id, question |-> ""],
                    Failure(404, "Analysis not found"))
     ELSE Immediate(p, [op |-> "getAnalysis", id |-> id, question |-> ""],
                    [Reply(200, "") EXCEPT !.analysis =
                                             << analysisStorage[id] >>])
  /\ UNCHANGED << analysisStorage, processingQueue, vectorStore,
                  workingModelName, chatHistory, globalStorage, nextId,
                  storeWrites >>

\* ------------------------------------------------------------ chatController
AskRequest(id, question) == [op |-> "ask", id |-> id, question |-> question]

\* question.trim()
Trim(question) == IF question = " " THEN "" ELSE question

\* lines 29-30: the record the chat controller finds for id, << >> when none
LookupAnalysis(id) ==
  IF id \in DOMAIN globalStorage THEN << globalStorage[id] >> ELSE << >>

\* lines 77 and 93: analysis.results.resumeText, '' when there is none
StoredResumeText(analysis) ==
  IF analysis.results = << >> THEN EmptyText
  ELSE analysis.results[1].resumeText

RECURSIVE Paragraphs(_, _)
Paragraphs(text, i) ==
  IF i > Len(text) THEN << >>
  ELSE << [para |-> i, sents |-> text[i].sents, key |-> text[i].key] >>
       \o Paragraphs(text, i + 1)

FirstN(s, n) == SubSeq(s, 1, IF Len(s) < n THEN Len(s) ELSE n)

\* A similarity is a fraction in lowest terms.
RECURSIVE GCD(_, _)
GCD(a, b) == IF b = 0 THEN a ELSE GCD(b, a % b)

Abs(n) == IF n < 0 THEN 0 - n ELSE n

Ratio(n, d) ==
  LET g == GCD(Abs(n), d) IN [num |-> n \div g, den |-> d \div g]

\* x < y
Less(x, y) == x.num * y.den < y.num * x.den

ContextItem(piece, similarity) ==
  [text |-> [para |-> piece.para, sents |-> piece.sents],
   similarity |-> similarity]

\* lines 81-87: the paragraphs of more than 50 characters, at most 10
ParagraphContext(text) ==
  LET IsLong(x) == JoinedLen(x.sents) > MinParagraphChars
      chosen == FirstN(SelectSeq(Paragraphs(text, 1), IsLong),
                       MaxParagraphContext)
  IN [i \in 1..Len(chosen) |-> ContextItem(chosen[i], Ratio(1, 2))]

\* lines 98-114: the keyword lines of more than 20 characters, at most 5
LineContext(text) ==
  LET IsKeyLine(x) == x.key /\ JoinedLen(x.sents) > MinLineChars
      chosen == FirstN(SelectSeq(Paragraphs(text, 1), IsKeyLine),
                       MaxLineContext)
  IN [i \in 1..Len(chosen) |-> ContextItem(chosen[i], Ratio(7, 10))]

\* lines 76-117: the context the answer is generated from
RelevantContext(found, resumeText) ==
  IF found # << >> \/ resumeText = EmptyText THEN found
  ELSE IF ParagraphContext(resumeText) # << >>
  THEN ParagraphContext(resumeText)
  ELSE LineContext(resumeText)

\* the rows of the type whatever identifier they were stored under
StoredEmbeddingsAnyId(id, type) ==
  IF \E key \in DOMAIN vectorStore : key[2] = type
  THEN vectorStore[CHOOSE key \in DOMAIN vectorStore : key[2] = type]
  ELSE << >>

\* ragService lines 218-220
StoredEmbeddings(id, type) ==
  IF << id, type >> \in DOMAIN vectorStore THEN vectorStore[<< id, type >>]
  ELSE << >>

AllEmbeddings(id) == StoredEmbeddings(id, "resume") \o StoredEmbeddings(id, "job")

\* JavaScript numbers are binary floating-point numbers: every operation
\* yields the exact result rounded to the nearest number of the format, halves
\* to the even one.  The format here has MantissaBits significant bits (a
\* double has 53) and no bound on the exponent.
RECURSIVE Pow2(_)
Pow2(k) == IF k = 0 THEN 1 ELSE 2 * Pow2(k - 1)

\* n/d to the nearest integer (n >= 0, d > 0)
RoundHalfEven(n, d) ==
  LET q == n \div d
      r == n % d
  IN IF 2 * r < d THEN q ELSE IF 2 * r > d THEN q + 1 ELSE q + (q % 2)

\* n/d to MantissaBits significant bits (n > 0, d > 0)
RECURSIVE RoundSig(_, _)
RoundSig(n, d) ==
  IF n < d * Pow2(MantissaBits - 1)
  THEN LET r == RoundSig(2 * n, d) IN Ratio(r.num, 2 * r.den)
  ELSE IF n >= d * Pow2(MantissaBits)
  THEN LET r == RoundSig(n, 2 * d) IN Ratio(2 * r.num, r.den)
  ELSE Ratio(RoundHalfEven(n, d), 1)

\* the number of the format nearest to n/d (d > 0)
Float(n, d) ==
  IF n = 0 THEN Ratio(0, 1)
  ELSE IF n < 0 THEN LET r == RoundSig(0 - n, d) IN Ratio(0 - r.num, r.den)
  ELSE RoundSig(n, d)

FAdd(x, y) == Float(x.num * y.den + y.num * x.den, x.den * y.den)
FMul(x, y) == Float(x.num * y.num, x.den * y.den)

\* x / y for y # 0
FDiv(x, y) ==
  IF y.num < 0 THEN Float((0 - x.num) * y.den, x.den * (0 - y.num))
  ELSE Float(x.num * y.den, x.den * y.num)

\* the square root of n/d to MantissaBits significant bits (n > 0, d > 0)
RECURSIVE SqrtSig(_, _)
SqrtSig(n, d) ==
  IF n < d * Pow2(2 * MantissaBits - 2)
  THEN LET r == SqrtSig(4 * n, d) IN Ratio(r.num, 2 * r.den)
  ELSE IF n >= d * Pow2(2 * MantissaBits)
  THEN LET r == SqrtSig(n, 4 * d) IN Ratio(2 * r.num, r.den)
  ELSE LET m == CHOOSE k \in Pow2(MantissaBits - 1)..Pow2(MantissaBits) :
                  k * k * d <= n /\ (k + 1) * (k + 1) * d > n
       IN Ratio(IF (2 * m + 1) * (2 * m + 1) * d < 4 * n THEN m + 1 ELSE m, 1)

\* Math.sqrt(x) for x >= 0
FSqrt(x) == IF x.num = 0 THEN Ratio(0, 1) ELSE SqrtSig(x.num, x.den)

\* ragService line 258: a.reduce((sum, _, i) => sum + a[i] * b[i], 0); the
\* components are integers here
RECURSIVE DotFrom(_, _, _, _)
DotFrom(a, b, i, sum) ==
  IF i > Len(a) THEN sum
  ELSE DotFrom(a, b, i + 1,
               FAdd(sum, FMul(Float(a[i], 1), Float(b[i], 1))))

Dot(a, b) == DotFrom(a, b, 1, Ratio(0, 1))

\* ragService lines 259-260
Magnitude(a) == FSqrt(Dot(a, a))

\* ragService lines 255-265
cosineSimilarity(a, b) ==
  IF Len(a) # Len(b) THEN Ratio(0, 1)
  ELSE IF Magnitude(a).num = 0 \/ Magnitude(b).num = 0 THEN Ratio(0, 1)
  ELSE FDiv(Dot(a, b), FMul(Magnitude(a), Magnitude(b)))

\* a row placed before the rows of equal similarity
RECURSIVE InsertBeforeEqual(_, _)
InsertBeforeEqual(sorted, x) ==
  IF sorted = << >> THEN << x >>
  ELSE IF ~Less(x.similarity, Head(sorted).similarity)
  THEN << x >> \o sorted
  ELSE << Head(sorted) >> \o InsertBeforeEqual(Tail(sorted), x)

\* Array.prototype.sort with (a, b) => b.similarity - a.similarity is stable:
\* a row goes behind the rows of greater or equal similarity sorted before it
RECURSIVE InsertRanked(_, _)
InsertRanked(sorted, x) ==
  IF sorted = << >> THEN << x >>
  ELSE IF Less(Head(sorted).similarity, x.similarity)
  THEN << x >> \o sorted
  ELSE << Head(sorted) >> \o InsertRanked(Tail(sorted), x)

RECURSIVE SortBySimilarity(_, _)
SortBySimilarity(rows, sorted) ==
  IF rows = << >> THEN sorted
  ELSE SortBySimilarity(Tail(rows), InsertRanked(sorted, Head(rows)))

\* ragService lines 236-244: the rows with their similarity to the query, the
\* best five
SearchResults(all, query) ==
  LET similarities ==
        [i \in 1..Len(all) |->
           [id |-> all[i].id, text |-> all[i].text,
            embedding |-> all[i].embedding,
            similarity |-> cosineSimilarity(query, all[i].embedding)]]
  IN FirstN(SortBySimilarity(similarities, << >>), TopK)

\* the embeddings the provider may return for a question
QueryVectors == { << 3, 4 >>, << 0, 5 >>, << -4, -3 >> }

\* chatController lines 148-153
Sources(context) ==
  [i \in 1..Len(context) |->
     [text |-> context[i].text, similarity |-> context[i].similarity]]

\* lines 135-146 with an assignment in place of the push
OverwriteChat(history, entry) == << entry >>

\* lines 135-146
AppendChat(history, entry) == Append(history, entry)

\* lines 7-53: askQuestion up to its call of searchEmbeddings
askQuestion(p, id, question) ==
  /\ IF id = NoId \/ question = ""
     THEN Immediate(p, AskRequest(id, question),
                    Failure(400, "analysisId and question are required"))
     ELSE IF Trim(question) = ""
     THEN Immediate(p, AskRequest(id, question),
                    Failure(400, "Question cannot be empty"))
     ELSE IF LookupAnalysis(id) = << >>
     THEN Immediate(p, AskRequest(id, question),
                    Failure(404, "Analysis not found for ID"))
     ELSE IF LookupAnalysis(id)[1].status # "completed"
     THEN Immediate(p, AskRequest(id, question),
                    [Failure(400, "Analysis not completed")
                       EXCEPT !.details = LookupAnalysis(id)[1].status])
     ELSE /\ CanReceive(p)
          /\ nreq' = nreq + 1
          /\ pc' = [pc EXCEPT ![p] = "search"]
          /\ req' = [req EXCEPT ![p] = AskRequest(id, question)]
          /\ UNCHANGED << loc, steps, last >>
  /\ UNCHANGED << analysisStorage, processingQueue, vectorStore,
                  workingModelName, chatHistory, globalStorage, nextId,
                  storeWrites >>

\* lines 76-133: the fallback contexts, the refusal when there is none, and
\* generateResponse (ragService lines 267-291) up to its first provider call
AfterSearch(p, query, found) ==
  LET analysis == LookupAnalysis(req[p].id)[1]
      context == RelevantContext(found, StoredResumeText(analysis))
  IN IF context = << >>
     THEN /\ Finish(p, Failure(400, "No context available to answer this question"),
                    steps[p] \cup {"retrieval"})
          /\ UNCHANGED workingModelName
     ELSE /\ loc' = [loc EXCEPT ![p].query = query, ![p].found = found,
                                ![p].context = context,
                                ![p].k = 1, ![p].ret = "answer"]
          /\ pc' = [pc EXCEPT ![p] = IF workingModelName # "" THEN "answer"
                                     ELSE "probe"]
          /\ steps' = [steps EXCEPT ![p] = @ \cup {"retrieval"}]
          /\ UNCHANGED << req, last, workingModelName >>

\* ragService lines 206-232: searchEmbeddings up to its first provider call
searchEmbeddings(p) ==
  /\ pc[p] = "search"
  /\ IF AllEmbeddings(req[p].id) = << >>
     THEN AfterSearch(p, << >>, << >>)
     ELSE /\ pc' = [pc EXCEPT ![p] = IF workingModelName # ""
                                     THEN "search_embed" ELSE "probe"]
          /\ loc' = [loc EXCEPT ![p].rows = AllEmbeddings(req[p].id),
                                ![p].k = 1, ![p].ret = "search_embed"]
          /\ steps' = [steps EXCEPT ![p] = @ \cup {"retrieval"}]
          /\ UNCHANGED << req, last, workingModelName >>
  /\ UNCHANGED << analysisStorage, processingQueue, vectorStore, chatHistory,
                  globalStorage, nextId, nreq, storeWrites >>

\* ragService lines 233-251: the query's embedding arrives and the rows are
\* ranked, or the call fails and the catch block returns no row
QueryEmbeddedFrom(p, queries) ==
  /\ pc[p] = "search_embed"
  /\ \/ \E query \in queries :
          AfterSearch(p, query, SearchResults(loc[p].rows, query))
     \/ AfterSearch(p, << >>, << >>)
  /\ UNCHANGED << analysisStorage, processingQueue, vectorStore, chatHistory,
                  globalStorage, nextId, nreq, storeWrites >>

QueryEmbedded(p) == QueryEmbeddedFrom(p, QueryVectors)

\* ragService lines 309-316 and chatController lines 128-154
AnswerGenerated(p) ==
  /\ pc[p] = "answer"
  /\ LET id == req[p].id
         entry == [question |-> req[p].question, answer |-> "generated"]
     IN /\ chatHistory' = [chatHistory EXCEPT ![id] = AppendChat(@, entry)]
        /\ Finish(p, [Reply(200, "") EXCEPT !.answer = "generated",
                                            !.sources = Sources(loc[p].context)],
                  steps[p] \cup {"generation", "append"})
  /\ UNCHANGED << analysisStorage, processingQueue, vectorStore,
                  workingModelName, globalStorage, nextId, nreq, storeWrites >>

\* ragService lines 317-320 and chatController lines 130-133: the provider
\* call fails, generateResponse rethrows, the handler answers 500
AnswerFails(p) ==
  /\ pc[p] = "answer"
  /\ Finish(p, Failure(500, "Failed to generate response. Please try again."),
            steps[p] \cup {"generation"})
  /\ UNCHANGED << analysisStorage, processingQueue, vectorStore,
                  workingModelName, chatHistory, globalStorage, nextId, nreq,
                  storeWrites >>

\* lines 161-174
getChatHistory(p, id) ==
  /\ Immediate(p, [op |-> "history", id |-> id, question |-> ""],
               [Reply(200, "") EXCEPT !.history =
                  IF id \in DOMAIN chatHistory THEN chatHistory[id] ELSE << >>])
  /\ UNCHANGED << analysisStorage, processingQueue, vectorStore,
                  workingModelName, chatHistory, globalStorage, nextId,
                  storeWrites >>

\* ---------------------------------------------------------------- matchService
\* For the skill extraction a document is a sequence of words; a word is its
\* characters and what follows it: white space only ("space"), or punctuation
\* (", "), which ends a run of capitalised words.  The words used below are
\* letters or digits throughout, and either hold no upper-case letter or
\* start with one.
Word(chars, glue) == [w |-> chars, glue |-> glue]

UpperCase ==
  << "A", "B", "C", "D", "E", "F", "G", "H", "I", "J", "K", "L", "M",
     "N", "O", "P", "Q", "R", "S", "T", "U", "V", "W", "X", "Y", "Z" >>
LowerCase ==
  << "a", "b", "c", "d", "e", "f", "g", "h", "i", "j", "k", "l", "m",
     "n", "o", "p", "q", "r", "s", "t", "u", "v", "w", "x", "y", "z" >>
Digits == {"0", "1", "2", "3", "4", "5", "6", "7", "8", "9"}

IsUpper(c) == \E i \in 1..Len(UpperCase) : UpperCase[i] = c
IsLetter(c) == IsUpper(c) \/ \E i \in 1..Len(LowerCase) : LowerCase[i] = c

\* String.prototype.toLowerCase
toLowerCase(s) ==
  [k \in 1..Len(s) |->
     IF IsUpper(s[k])
     THEN LowerCase[CHOOSE i \in 1..Len(UpperCase) : UpperCase[i] = s[k]]
     ELSE s[k]]

\* String.prototype.includes
includes(hay, needle) ==
  \E i \in 0..(Len(hay) - Len(needle)) :
    SubSeq(hay, i + 1, i + Len(needle)) = needle

\* the words of the documents
wRequires == << "R", "e", "q", "u", "i", "r", "e", "s" >>
wKubernetes == << "K", "u", "b", "e", "r", "n", "e", "t", "e", "s" >>
wAWS == << "A", "W", "S" >>
wPython == << "P", "y", "t", "h", "o", "n" >>
wpython == << "p", "y", "t", "h", "o", "n" >>
w5 == << "5" >>
wyears == << "y", "e", "a", "r", "s" >>
wand == << "a", "n", "d" >>
wDocker == << "D", "o", "c", "k", "e", "r" >>
wRole == << "R", "o", "l", "e" >>
wthe == << "t", "h", "e" >>
wrole == << "r", "o", "l", "e" >>
wGCP == << "G", "C", "P" >>
wDNS == << "D", "N", "S" >>
wPHP == << "P", "H", "P" >>
wCSS == << "C", "S", "S" >>
wSQL == << "S", "Q", "L" >>
wJWT == << "J", "W", "T" >>
wERP == << "E", "R", "P" >>
wCRM == << "C", "R", "M" >>
wAPI == << "A", "P", "I" >>
wXML == << "X", "M", "L" >>
wk8s == << "k", "8", "s" >>
wSalesforce == << "S", "a", "l", "e", "s", "f", "o", "r", "c", "e" >>

\* lines 215-345: the patterns of techPatterns that match in some word above,
\* in their order, each with its alternatives in lower case (the flag i)
techPatterns ==
  << << wAWS >>, << wGCP >>, << wKubernetes, wk8s >>, << wDocker >>,
     << wDNS >>, << wPython >>, << wPHP >>, << wCSS >>, << wSQL >>,
     << wJWT >>, << wERP >>, << wCRM >>, << wAPI >>, << wXML >> >>

\* lines 410-466: the entries of genericTerms that the documents can yield
genericTerms == { wrole, wthe, wand }

\* line 367: the words a capitalised term may not be
StopWords == { wthe, wand }

\* the alternative of pattern pat that matches chars at position i, if any
AltAt(chars, pat, i) ==
  LET fits(a) == /\ i + Len(a) - 1 <= Len(chars)
                 /\ toLowerCase(SubSeq(chars, i, i + Len(a) - 1)) = toLowerCase(a)
      first == { k \in 1..Len(pat) :
                   fits(pat[k]) /\ \A j \in 1..(k - 1) : ~fits(pat[j]) }
  IN IF first = {} THEN 0 ELSE Len(pat[CHOOSE k \in first : TRUE])

\* line 349, text.match(pattern) with the flag g, inside one word
RECURSIVE MatchesIn(_, _, _)
MatchesIn(chars, pat, i) ==
  IF i > Len(chars) THEN << >>
  ELSE LET n == AltAt(chars, pat, i) IN
       IF n = 0 THEN MatchesIn(chars, pat, i + 1)
       ELSE << SubSeq(chars, i, i + n - 1) >> \o MatchesIn(chars, pat, i + n)

RECURSIVE PatternMatches(_, _, _)
PatternMatches(text, pat, t) ==
  IF t > Len(text) THEN << >>
  ELSE MatchesIn(text[t].w, pat, 1) \o PatternMatches(text, pat, t + 1)

\* lines 348-362: the matches of every pattern, those of one character dropped
RECURSIVE TechMatches(_, _)
TechMatches(text, k) ==
  IF k > Len(techPatterns) THEN << >>
  ELSE SelectSeq(PatternMatches(text, techPatterns[k], 1),
                 LAMBDA m : Len(m) > 1)
       \o TechMatches(text, k + 1)

IsCapitalized(word) == IsUpper(word.w[1]) /\ \A i \in 1..Len(word.w) : IsLetter(word.w[i])

\* line 365: the runs of capitalised words that only white space separates;
\* cur is the run being read
RECURSIVE capitalizedTerms(_, _, _)
capitalizedTerms(text, t, cur) ==
  IF t > Len(text)
  THEN IF cur = << >> THEN << >> ELSE << cur >>
  ELSE LET word == text[t] IN
       IF ~IsCapitalized(word)
       THEN (IF cur = << >> THEN << >> ELSE << cur >>)
            \o capitalizedTerms(text, t + 1, << >>)
       ELSE LET run == IF cur = << >> THEN word.w ELSE cur \o << " " >> \o word.w
            IN IF word.glue = "space"
               THEN capitalizedTerms(text, t + 1, run)
               ELSE << run >> \o capitalizedTerms(text, t + 1, << >>)

\* [...new Set(skills)]: the first occurrence of each value, in order
RECURSIVE Unique(_)
Unique(s) ==
  IF s = << >> THEN << >>
  ELSE LET init == Unique(SubSeq(s, 1, Len(s) - 1))
           x == s[Len(s)]
       IN IF \E i \in 1..Len(init) : init[i] = x THEN init ELSE Append(init, x)

\* lines 210-373
extractSkillsWithRegex(text) ==
  LET isTerm(term) == /\ Len(term) > 1
                      /\ Len(term) < 30
                      /\ toLowerCase(term) \notin StopWords
  IN Unique(TechMatches(text, 1)
            \o SelectSeq(capitalizedTerms(text, 1, << >>), isTerm))

\* lines 409-467
filterGenericTerms(skills) ==
  LET keep(skill) == /\ Len(skill) > 2
                     /\ toLowerCase(skill) \notin genericTerms
                     /\ ~(\A i \in 1..Len(skill) : skill[i] \in Digits)
                     /\ Len(skill) < 30
  IN SelectSeq(skills, keep)

\* Math.round(100 * m / n) for n > 0
RoundPercent(m, n) == (200 * m + n) \div (2 * n)

\* lines 606-681: the fallback analysis (never called by calculateMatchScore)
generateBasicAnalysis(resumeText, jobDescriptionText) ==
  LET resumeSkills == filterGenericTerms(extractSkillsWithRegex(resumeText))
      jobSkills == filterGenericTerms(extractSkillsWithRegex(jobDescriptionText))
      isMatched(jobSkill) ==
        \E i \in 1..Len(resumeSkills) :
          \/ includes(toLowerCase(resumeSkills[i]), toLowerCase(jobSkill))
          \/ includes(toLowerCase(jobSkill), toLowerCase(resumeSkills[i]))
      matchedSkills == SelectSeq(jobSkills, isMatched)
      unmatchedSkills == SelectSeq(jobSkills, LAMBDA s : ~isMatched(s))
      score == IF Len(jobSkills) > 0
               THEN RoundPercent(Len(matchedSkills), Len(jobSkills)) ELSE 0
  IN [score |-> score,
      jobSkills |-> jobSkills,
      matchedSkills |-> matchedSkills,
      unmatchedSkills |-> unmatchedSkills,
      experienceMatch |-> [strong |-> FirstN(matchedSkills, MaxListedSkills),
                           weak |-> FirstN(unmatchedSkills, MaxListedSkills)]]

\* ----------------------------------------------------------- specifications
\* The program.  Nothing in it assigns `global.analysisStorage`, so the chat
\* controller's askQuestion always answers before its first await and its
\* later steps (searchEmbeddings, QueryEmbedded, AnswerGenerated, AnswerFails)
\* are never enabled.
Next ==
  \E p \in Procs :
    \/ UploadMissing(p)
    \/ \E r \in ResumeFiles, j \in JobFiles : uploadFiles(p, r, j)
    \/ \E id \in ReqIds : analyzeResume(p, id)
    \/ ExtractThrows(p)
    \/ ExtractAndChunk(p)
    \/ generateEmbeddings(p)
    \/ ProbeSucceeds(p)
    \/ ProbeFails(p)
    \/ EmbedChunk(p)
    \/ StoreResume(p)
    \/ StoreJob(p)
    \/ CompleteRun(p)
    \/ \E id \in ReqIds : getAnalysis(p, id)
    \/ \E id \in ReqIds, q \in Questions : askQuestion(p, id, q)
    \/ \E id \in ReqIds : getChatHistory(p, id)

Spec == Init /\ [][Next]_vars

\* The chat controller and the RAG service it calls, applied to the analysis
\* records and vector-store rows their environment may hand them.
ChatTexts == {ShortText, KeyText, LongText}

ProviderEmbeddings(chunks) ==
  [i \in 1..Len(chunks) |-> EmbeddingEntry(i, chunks[i], "provider")]

CompletedRecord(t) ==
  [NewAnalysis(TxtFile(t), TxtFile(EmptyText))
     EXCEPT !.status = "completed",
            !.results = << AnalysisResults(calculateMatchScore(<< ExampleAnalysis >>),
                                           t, EmptyText) >>]

ChatRecords ==
  { [NewAnalysis(TxtFile(ShortText), TxtFile(EmptyText))
       EXCEPT !.status = "processing"] }
  \cup { CompletedRecord(t) : t \in ChatTexts }

\* identifier 1 is absent or holds any of the records, the others hold a
\* completed analysis; a completed analysis may have its rows in the store.
\* The gateway has cached a model, as it has after any processing run that
\* embedded a chunk, so no probe runs here (Spec covers the probes).
InitChat ==
  /\ \E dom \in {Ids, Ids \ {1}} :
       \E first \in ChatRecords :
         globalStorage = [i \in dom |-> IF i = 1 THEN first
                                        ELSE CompletedRecord(KeyText)]
  /\ \E stored \in SUBSET { i \in DOMAIN globalStorage :
                              i = 1 /\ globalStorage[i].status = "completed" } :
       vectorStore =
         [key \in stored \X {"resume", "job"} |->
            ProviderEmbeddings(processDocument(
              IF key[2] = "resume"
              THEN globalStorage[key[1]].results[1].resumeText
              ELSE EmptyText))]
  /\ analysisStorage = << >>
  /\ processingQueue = {}
  /\ workingModelName = PREFERRED_MODELS[1]
  /\ chatHistory = [i \in Ids |-> << >>]
  /\ nextId = 0
  /\ nreq = 0
  /\ pc = [p \in Procs |-> "idle"]
  /\ req = [p \in Procs |-> NoRequest]
  /\ loc = [p \in Procs |-> Loc0]
  /\ steps = [p \in Procs |-> {}]
  /\ last = [n |-> 0, req |-> NoRequest, resp |-> Resp0, steps |-> {}]
  /\ storeWrites = [key \in Keys |-> 0]

NextChat ==
  \E p \in Procs :
    \/ \E id \in ReqIds, q \in Questions : askQuestion(p, id, q)
    \/ searchEmbeddings(p)
    \/ QueryEmbedded(p)
    \/ AnswerGenerated(p)
    \/ AnswerFails(p)
    \/ \E id \in ReqIds : getChatHistory(p, id)

SpecChat == InitChat /\ [][NextChat]_vars

\* The program with the scheduling Node guarantees: a handler whose awaited
\* call is local (text extraction, the store, the code before a provider call)
\* is resumed.  Nothing bounds a provider call (the probe, embedContent, the
\* scoring prompt), so the steps that wait for the provider are not in it.
LocalStep(p) ==
  \/ ExtractThrows(p)
  \/ ExtractAndChunk(p)
  \/ generateEmbeddings(p)
  \/ StoreResume(p)
  \/ StoreJob(p)

FairSpec == Spec /\ \A p \in Procs : WF_vars(LocalStep(p))

\* Scoring: a processing run stands at its call of calculateMatchScore with the
\* two texts it extracted; the fallback analysis is applied to the same texts.
Comma(words) ==
  [i \in 1..Len(words) |-> Word(words[i], IF i < Len(words) THEN "comma" ELSE "end")]
Spaced(words) ==
  [i \in 1..Len(words) |-> Word(words[i], IF i < Len(words) THEN "space" ELSE "end")]

NoWords == << >>
\* "Requires Kubernetes, AWS, Python"
RoleA == << Word(wRequires, "space") >> \o Comma(<< wKubernetes, wAWS, wPython >>)
\* "5 years Python and AWS"
CandidateA == Spaced(<< w5, wyears, wPython, wand, wAWS >>)
\* "AWS, GCP, DNS, PHP, CSS, SQL, JWT, ERP, CRM, API, XML"
RoleEleven ==
  Comma(<< wAWS, wGCP, wDNS, wPHP, wCSS, wSQL, wJWT, wERP, wCRM, wAPI, wXML >>)

RoleDocs ==
  { NoWords, RoleA, RoleEleven, Comma(<< wDocker, wKubernetes >>),
    Spaced(<< wthe, wrole >>), Comma(<< wRole, wAWS >>),
    Spaced(<< wSalesforce >>) }
CandidateDocs ==
  { NoWords, CandidateA, Spaced(<< wKubernetes, wand, wDocker >>),
    Spaced(<< wpython >>), Comma(<< wAWS, wGCP, wDNS >>), Spaced(<< wk8s >>),
    Spaced(<< wKubernetes, wSalesforce, wPython >>) }

InitMatch ==
  /\ \E resumeText \in CandidateDocs, jobText \in RoleDocs :
       /\ analysisStorage =
            (1 :> [NewAnalysis(TxtFile(resumeText), TxtFile(jobText))
                     EXCEPT !.status = "processing"])
       /\ loc = [p \in Procs |->
                   IF p = 1 THEN [Loc0 EXCEPT !.resumeText = resumeText,
                                              !.jobText = jobText, !.doc = "job"]
                   ELSE Loc0]
  /\ processingQueue = {1}
  /\ vectorStore = [key \in {1} \X {"resume", "job"} |-> << >>]
  /\ storeWrites = [key \in Keys |-> IF key[1] = 1 THEN 1 ELSE 0]
  /\ workingModelName = PREFERRED_MODELS[1]
  /\ chatHistory = [i \in Ids |-> << >>]
  /\ globalStorage = << >>
  /\ nextId = 1
  /\ nreq = 2
  /\ pc = [p \in Procs |-> IF p = 1 THEN "match" ELSE "idle"]
  /\ req = [p \in Procs |-> IF p = 1 THEN AnalyzeRequest(1) ELSE NoRequest]
  /\ steps = [p \in Procs |->
                IF p = 1 THEN {"extract", "chunk", "embed", "store"} ELSE {}]
  /\ last = [n |-> 0, req |-> NoRequest, resp |-> Resp0, steps |-> {}]

\* generateBasicAnalysis applied to the texts of the run of p
BasicAnalysis(p) ==
  /\ pc[p] = "match"
  /\ last.req.op # "generateBasicAnalysis"
  /\ Answer([op |-> "generateBasicAnalysis", id |-> req[p].id, question |-> ""],
            [Resp0 EXCEPT !.results =
               << generateBasicAnalysis(loc[p].resumeText, loc[p].jobText) >>],
            {})
  /\ UNCHANGED << analysisStorage, processingQueue, vectorStore,
                  workingModelName, chatHistory, globalStorage, nextId, nreq,
                  pc, req, loc, steps, storeWrites >>

NextMatch ==
  \E p \in Procs :
    \/ CompleteRun(p)
    \/ BasicAnalysis(p)

SpecMatch == InitMatch /\ [][NextMatch]_vars

\* Embedding: runs stand at their call of generateEmbeddings for the resume,
\* the gateway's cache is empty.  Handler 1 runs analysis 1; handler 2 is idle
\* or runs analysis 2 at the same time.
RunningRecord(resumeText, jobText) ==
  [NewAnalysis(TxtFile(resumeText), TxtFile(jobText))
     EXCEPT !.status = "processing"]

AtGenerate(resumeText, jobText) ==
  [Loc0 EXCEPT !.resumeText = resumeText, !.jobText = jobText,
               !.doc = "resume", !.chunks = processDocument(resumeText)]

InitEmbed ==
  /\ \E resumeText \in {LongText, TriText}, jobText \in {EmptyText, ShortText},
        both \in BOOLEAN :
       /\ analysisStorage =
            IF both
            THEN (1 :> RunningRecord(resumeText, jobText))
                 @@ (2 :> RunningRecord(ShortText, EchoText))
            ELSE (1 :> RunningRecord(resumeText, jobText))
       /\ loc = [p \in Procs |->
                   IF p = 1 THEN AtGenerate(resumeText, jobText)
                   ELSE IF p = 2 /\ both THEN AtGenerate(ShortText, EchoText)
                   ELSE Loc0]
       /\ processingQueue = IF both THEN {1, 2} ELSE {1}
       /\ nextId = IF both THEN 2 ELSE 1
       /\ nreq = IF both THEN 4 ELSE 2
       /\ pc = [p \in Procs |->
                  IF p = 1 \/ (p = 2 /\ both) THEN "generate" ELSE "idle"]
       /\ req = [p \in Procs |->
                   IF p = 1 \/ (p = 2 /\ both) THEN AnalyzeRequest(p)
                   ELSE NoRequest]
       /\ steps = [p \in Procs |->
                     IF p = 1 \/ (p = 2 /\ both) THEN {"extract", "chunk"}
                     ELSE {}]
  /\ vectorStore = << >>
  /\ storeWrites = [key \in Keys |-> 0]
  /\ workingModelName = ""
  /\ chatHistory = [i \in Ids |-> << >>]
  /\ globalStorage = << >>
  /\ last = [n |-> 0, req |-> NoRequest, resp |-> Resp0, steps |-> {}]

NextEmbed ==
  \E p \in Procs :
    \/ generateEmbeddings(p)
    \/ ProbeSucceeds(p)
    \/ ProbeFails(p)
    \/ EmbedChunk(p)

SpecEmbed == InitEmbed /\ [][NextEmbed]_vars

\* Chunking: a run stands at its first step with a resume text made of one or
\* two paragraphs, whose sentences have the lengths below: a short sentence,
\* two that fill a chunk exactly when joined (399 + 1 + 400), and one that is
\* longer than a chunk.
MaxSents == 3
SentLens == {10, 399, 400, 801}

SentenceRuns == UNION { [1..k -> SentLens] : k \in 1..MaxSents }

SecondParagraphs == { << 10 >>, << 400, 400, 10 >> }

ChunkTexts ==
  { << [sents |-> s, key |-> FALSE] >> : s \in SentenceRuns }
  \cup { << [sents |-> s, key |-> FALSE], [sents |-> t, key |-> FALSE] >> :
           s \in SentenceRuns, t \in SecondParagraphs }

InitChunk ==
  /\ \E resumeText \in ChunkTexts :
       analysisStorage = (1 :> RunningRecord(resumeText, ShortText))
  /\ processingQueue = {1}
  /\ vectorStore = << >>
  /\ storeWrites = [key \in Keys |-> 0]
  /\ workingModelName = ""
  /\ chatHistory = [i \in Ids |-> << >>]
  /\ globalStorage = << >>
  /\ nextId = 1
  /\ nreq = 2
  /\ pc = [p \in Procs |-> IF p = 1 THEN "extract" ELSE "idle"]
  /\ req = [p \in Procs |-> IF p = 1 THEN AnalyzeRequest(1) ELSE NoRequest]
  /\ loc = [p \in Procs |-> Loc0]
  /\ steps = [p \in Procs |-> {}]
  /\ last = [n |-> 0, req |-> NoRequest, resp |-> Resp0, steps |-> {}]

NextChunk == \E p \in Procs : ExtractAndChunk(p)

SpecChunk == InitChunk /\ [][NextChunk]_vars

\* Search: the run of analysis 1 stands before its two writes to the vector
\* store, holding the embeddings generateEmbeddings returned for its six
\* chunks (each the provider's vector or the mock one); the chat controller
\* is handed completed records for both identifiers, and nothing is ever
\* stored under identifier 2.
SearchResume == TriText
SearchJob == LongText
Origins == {"provider", "mock"}

GeneratedEmbeddings(chunks, srcs) ==
  [i \in 1..Len(chunks) |-> EmbeddingEntry(i, chunks[i], srcs[i])]

InitSearch ==
  /\ \E rs \in [1..Len(processDocument(SearchResume)) -> Origins],
        js \in [1..Len(processDocument(SearchJob)) -> Origins],
        other \in {EmptyText, KeyText} :
       /\ loc = [p \in Procs |->
                   IF p = 1
                   THEN [Loc0 EXCEPT
                           !.resumeText = SearchResume,
                           !.jobText = SearchJob,
                           !.doc = "job",
                           !.chunks = processDocument(SearchJob),
                           !.resumeEmbs = GeneratedEmbeddings(
                                            processDocument(SearchResume), rs),
                           !.jobEmbs = GeneratedEmbeddings(
                                         processDocument(SearchJob), js)]
                   ELSE Loc0]
       /\ globalStorage = (1 :> CompletedRecord(SearchResume))
                            @@ (2 :> CompletedRecord(other))
  /\ analysisStorage = (1 :> RunningRecord(SearchResume, SearchJob))
  /\ processingQueue = {1}
  /\ vectorStore = << >>
  /\ storeWrites = [key \in Keys |-> 0]
  /\ workingModelName = PREFERRED_MODELS[1]
  /\ chatHistory = [i \in Ids |-> << >>]
  /\ nextId = 1
  /\ nreq = 2
  /\ pc = [p \in Procs |-> IF p = 1 THEN "store_resume" ELSE "idle"]
  /\ req = [p \in Procs |-> IF p = 1 THEN AnalyzeRequest(1) ELSE NoRequest]
  /\ steps = [p \in Procs |->
                IF p = 1 THEN {"extract", "chunk", "embed"} ELSE {}]
  /\ last = [n |-> 0, req |-> NoRequest, resp |-> Resp0, steps |-> {}]

NextSearch ==
  \E p \in Procs :
    \/ StoreResume(p)
    \/ StoreJob(p)
    \/ \E id \in ReqIds, q \in Questions : askQuestion(p, id, q)
    \/ searchEmbeddings(p)
    \/ QueryEmbedded(p)
    \/ AnswerGenerated(p)
    \/ AnswerFails(p)

SpecSearch == InitSearch /\ [][NextSearch]_vars

\* Embedding with a provider whose vectors may have any length
NextDims ==
  \E p \in Procs :
    \/ generateEmbeddings(p)
    \/ ProbeSucceeds(p)
    \/ ProbeFails(p)
    \/ EmbedChunk(p)
    \/ EmbedChunkWide(p)

SpecDims == InitEmbed /\ [][NextDims]_vars

\* Similarity: a search stands at its provider call with one resume row and
\* one job row read; the rows' vectors and the query's are any of the vectors
\* below (the zero vector, vectors of two components, one of three).
CosineVectors ==
  { << 0, 0 >>, << 2, 3 >>, << 3, 4 >>, << 4, 3 >>, << -2, -3 >>, << -4, 3 >>,
    << 3, 4, 0 >> }

InitCosine ==
  /\ \E a \in CosineVectors, b \in CosineVectors :
       vectorStore =
         (<< 1, "resume" >> :>
            << [id |-> 0, text |-> processDocument(KeyText)[1],
                embedding |-> a] >>)
         @@ (<< 1, "job" >> :>
               << [id |-> 0, text |-> processDocument(ShortText)[1],
                   embedding |-> b] >>)
  /\ loc = [p \in Procs |->
              IF p = 1
              THEN [Loc0 EXCEPT !.rows = AllEmbeddings(1), !.k = 1,
                                !.ret = "search_embed"]
              ELSE Loc0]
  /\ globalStorage = (1 :> CompletedRecord(KeyText))
  /\ analysisStorage = << >>
  /\ processingQueue = {}
  /\ storeWrites = [key \in Keys |-> 0]
  /\ workingModelName = PREFERRED_MODELS[1]
  /\ chatHistory = [i \in Ids |-> << >>]
  /\ nextId = 0
  /\ nreq = 1
  /\ pc = [p \in Procs |-> IF p = 1 THEN "search_embed" ELSE "idle"]
  /\ req = [p \in Procs |->
              IF p = 1 THEN AskRequest(1, "which projects?") ELSE NoRequest]
  /\ steps = [p \in Procs |-> IF p = 1 THEN {"retrieval"} ELSE {}]
  /\ last = [n |-> 0, req |-> NoRequest, resp |-> Resp0, steps |-> {}]

NextCosine ==
  \E p \in Procs :
    \/ QueryEmbeddedFrom(p, CosineVectors)
    \/ AnswerGenerated(p)
    \/ AnswerFails(p)

SpecCosine == InitCosine /\ [][NextCosine]_vars

\* Parsing: a run stands at its call of calculateMatchScore; the response the
\* provider is about to give is an exception, the example analysis, or any
\* text of at most MaxBlocks of the blocks below.
MaxBlocks == 4

SampleBlocks ==
  { Block(t, {t}, << >>) : t \in Titles }
  \cup { Block("Match Score: 70%", {}, << 70 >>),
         Block("Could excel with moderate onboarding", {}, << >>),
         BlankBlock }

SampleAnalyses ==
  UNION { [1..n -> SampleBlocks] : n \in 1..MaxBlocks } \cup { ExampleAnalysis }

InitParse ==
  /\ \E response \in { << >> } \cup { << text >> : text \in SampleAnalyses } :
       loc = [p \in Procs |->
                IF p = 1 THEN [Loc0 EXCEPT !.resumeText = ShortText,
                                           !.doc = "job",
                                           !.analysisText = response]
                ELSE Loc0]
  /\ analysisStorage = (1 :> RunningRecord(ShortText, EmptyText))
  /\ processingQueue = {1}
  /\ vectorStore = [key \in {1} \X {"resume", "job"} |-> << >>]
  /\ storeWrites = [key \in Keys |-> IF key[1] = 1 THEN 1 ELSE 0]
  /\ workingModelName = PREFERRED_MODELS[1]
  /\ chatHistory = [i \in Ids |-> << >>]
  /\ globalStorage = << >>
  /\ nextId = 1
  /\ nreq = 2
  /\ pc = [p \in Procs |-> IF p = 1 THEN "match" ELSE "idle"]
  /\ req = [p \in Procs |-> IF p = 1 THEN AnalyzeRequest(1) ELSE NoRequest]
  /\ steps = [p \in Procs |->
                IF p = 1 THEN {"extract", "chunk", "embed", "store"} ELSE {}]
  /\ last = [n |-> 0, req |-> NoRequest, resp |-> Resp0, steps |-> {}]

\* parseAnalysisText applied to the text the provider is about to give
ParseAnalysis(p) ==
  /\ pc[p] = "match"
  /\ loc[p].analysisText # << >>
  /\ last.req.op # "parseAnalysisText"
  /\ Answer([op |-> "parseAnalysisText", id |-> req[p].id, question |-> ""],
            [Resp0 EXCEPT !.results =
               << parseAnalysisText(loc[p].analysisText[1]) >>],
            {})
  /\ UNCHANGED << analysisStorage, processingQueue, vectorStore,
                  workingModelName, chatHistory, globalStorage, nextId, nreq,
                  pc, req, loc, steps, storeWrites >>

NextParse ==
  \E p \in Procs :
    \/ CompleteRunParsed(p)
    \/ ParseAnalysis(p)

SpecParse == InitParse /\ [][NextParse]_vars

\* ------------------------------------------------------------------ claims
Status(id) == analysisStorage[id].status
Stored(id) == id \in DOMAIN analysisStorage

\* the handlers running the processing steps of id, now and after the step
Runners(id) == {p \in Procs : pc[p] # "idle" /\ req[p] = AnalyzeRequest(id)}
RunnersNext(id) == {p \in Procs : pc'[p] # "idle" /\ req'[p] = AnalyzeRequest(id)}

\* this step sends a response
Answers == last'.n = last.n + 1

\* this step receives the request rq (answered at once, or taken in flight)
Arrives(rq) ==
  /\ nreq' = nreq + 1
  /\ \/ Answers /\ last'.req = rq
     \/ \E p \in Procs : req[p] = NoRequest /\ req'[p] = rq

ValidQuestions == {q \in Questions : Trim(q) # ""}

\* C1: of the analyze requests for one identifier at most one runs the
\* processing steps at any time; a request for an uploaded analysis starts the
\* run, and a request that arrives while the run is in flight is answered
\* 'Analysis already in progress', runs no step and leaves the run alone.
\* The run is given up only by the step that ends it, completed or failed.
C1_ExactlyOneRun ==
  /\ [](\A id \in Ids : Cardinality(Runners(id)) <= 1)
  /\ [][\A id \in Ids : (Runners(id) # {} /\ RunnersNext(id) = {}) =>
          /\ Answers
          /\ last'.req = AnalyzeRequest(id)
          /\ analysisStorage'[id].status \in {"completed", "error"}]_vars
  /\ [][\A id \in Ids : Arrives(AnalyzeRequest(id)) =>
          /\ (Stored(id) /\ Status(id) = "uploaded")
               => Cardinality(RunnersNext(id)) = 1
          /\ Runners(id) # {} =>
               /\ Answers
               /\ last'.resp.code = 202
               /\ last'.resp.message = "Analysis already in progress"
               /\ last'.steps = {}
               /\ RunnersNext(id) = Runners(id)
               /\ vectorStore' = vectorStore
               /\ analysisStorage' = analysisStorage]_vars

C1_Witness ==
  \E id \in Ids :
    /\ Runners(id) # {}
    /\ last.req = AnalyzeRequest(id)
    /\ last.resp.message = "Analysis already in progress"

\* C2: a record is created 'uploaded' and its status only moves
\* uploaded -> processing -> completed or uploaded -> processing -> error;
\* the graph has no cycle, so each move happens at most once and completed
\* and error are never left.
StatusEdges ==
  { << "uploaded", "processing" >>, << "processing", "completed" >>,
    << "processing", "error" >> }

C2_StatusTransitions ==
  [][\A id \in Ids :
       /\ Stored(id) =>
            /\ id \in DOMAIN analysisStorage'
            /\ \/ analysisStorage'[id].status = Status(id)
               \/ << Status(id), analysisStorage'[id].status >> \in StatusEdges
       /\ (~Stored(id) /\ id \in DOMAIN analysisStorage')
            => analysisStorage'[id].status = "uploaded"]_vars

C2_Witness ==
  \E id \in Ids :
    /\ Stored(id)
    /\ Status(id) = "completed"
    /\ last.req.op = "ask"
    /\ last.req.id = id

\* C3: when a processing step throws, the run ends with status 'error', the
\* detail answered is the detail stored and the identifier leaves the queue;
\* afterwards the status and the detail never change, and an analyze request
\* is answered 500 with the stored detail and runs no step.
C3_ErrorIsTerminal ==
  [][\A id \in Ids :
       /\ (Answers /\ last'.req = AnalyzeRequest(id)
             /\ last'.resp.error = "Error during analysis processing")
            => /\ analysisStorage'[id].status = "error"
               /\ analysisStorage'[id].error = last'.resp.details
               /\ last'.resp.details # ""
               /\ id \notin processingQueue'
       /\ (Stored(id) /\ Status(id) = "error")
            => /\ analysisStorage'[id] = analysisStorage[id]
               /\ RunnersNext(id) = {}
               /\ Arrives(AnalyzeRequest(id)) =>
                    /\ Answers
                    /\ last'.resp.code = 500
                    /\ last'.resp.error = "Previous analysis attempt failed"
                    /\ last'.resp.details = analysisStorage[id].error
                    /\ last'.steps = {}]_vars

C3_Witness ==
  \E id \in Ids :
    /\ Stored(id)
    /\ Status(id) = "error"
    /\ analysisStorage[id].error = "boom"
    /\ last.req = AnalyzeRequest(id)
    /\ last.resp.error = "Previous analysis attempt failed"
    /\ last.resp.details = "boom"

\* C4: storeEmbeddings is called at most once for each key, only by the run of
\* an analysis that is 'processing'; the results are set only by the step that
\* completes the run; once the analysis is completed its results and its rows
\* never change, and an analyze request is answered with the stored results.
C4_WrittenOnce ==
  /\ [](\A key \in Keys : storeWrites[key] <= 1)
  /\ [][\A id \in Ids : Stored(id) =>
          /\ (\E t \in {"resume", "job"} :
                storeWrites'[<< id, t >>] # storeWrites[<< id, t >>])
               => Status(id) = "processing"
          /\ analysisStorage'[id].results # analysisStorage[id].results
               => /\ Status(id) = "processing"
                  /\ analysisStorage'[id].status = "completed"
          /\ Status(id) = "completed" =>
               /\ analysisStorage'[id].results = analysisStorage[id].results
               /\ \A t \in {"resume", "job"} :
                    /\ << id, t >> \in DOMAIN vectorStore'
                    /\ vectorStore'[<< id, t >>] = vectorStore[<< id, t >>]
                    /\ storeWrites'[<< id, t >>] = storeWrites[<< id, t >>]
               /\ Arrives(AnalyzeRequest(id)) =>
                    /\ Answers
                    /\ last'.resp.message = "Analysis already completed"
                    /\ last'.resp.results = analysisStorage[id].results
                    /\ last'.steps = {}]_vars

C4_Witness ==
  \E id \in Ids :
    /\ Stored(id)
    /\ Status(id) = "completed"
    /\ storeWrites[<< id, "resume" >>] = 1
    /\ storeWrites[<< id, "job" >>] = 1
    /\ vectorStore[<< id, "resume" >>] # << >>
    /\ last.req = AnalyzeRequest(id)
    /\ last.resp.message = "Analysis already completed"
    /\ last.resp.results = analysisStorage[id].results

\* C5: a well-formed question is answered 'Analysis not found' exactly when no
\* record is stored under its identifier.
C5_NotFoundOnlyWhenUnknown ==
  [][\A id \in Ids, q \in ValidQuestions :
       Arrives(AskRequest(id, q)) =>
         ((Answers /\ last'.resp.code = 404) <=> ~Stored(id))]_vars

\* C6: a well-formed question on an analysis that is uploaded, processing or
\* failed is answered 'Analysis not completed', after no retrieval and no
\* generation, and appends nothing to the chat history.
C6_NotReadyRejected ==
  [][\A id \in Ids, q \in ValidQuestions :
       (Arrives(AskRequest(id, q)) /\ Stored(id)
          /\ Status(id) \in {"uploaded", "processing", "error"})
       => /\ Answers
          /\ last'.resp.code = 400
          /\ last'.resp.error = "Analysis not completed"
          /\ last'.steps = {}
          /\ chatHistory' = chatHistory]_vars

\* C7: the response to a well-formed question on a completed analysis that has
\* no row in the vector store and whose resume text gives no fallback context
\* is the 'No context available' error, with no answer, no generation and no
\* chat entry.
C7_NoContextReported ==
  [][\A id \in Ids, q \in ValidQuestions :
       (Answers /\ last'.req = AskRequest(id, q) /\ Stored(id)
          /\ Status(id) = "completed" /\ AllEmbeddings(id) = << >>
          /\ RelevantContext(<< >>, StoredResumeText(analysisStorage[id])) = << >>)
       => /\ last'.resp.code = 400
          /\ last'.resp.error = "No context available to answer this question"
          /\ last'.resp.answer = ""
          /\ "generation" \notin last'.steps
          /\ chatHistory' = chatHistory]_vars

\* C8: a question for which generateResponse was called (the context was not
\* empty) is answered with answer text, never with an error.
C8_AlwaysSomeAnswer ==
  (last.req.op = "ask" /\ "generation" \in last.steps)
    => (last.resp.code = 200 /\ last.resp.answer # "")

\* C9: a step changes the history of at most one identifier, and only by
\* appending the entry of the question it answers; a step that answers a
\* question with answer text appends one entry, a step that answers with an
\* error appends none.
C9_HistoryAppendOnly ==
  [][\A id \in Ids :
       /\ \/ chatHistory'[id] = chatHistory[id]
          \/ /\ Answers
             /\ last'.req.op = "ask"
             /\ last'.req.id = id
             /\ last'.resp.answer # ""
             /\ chatHistory'[id] =
                  Append(chatHistory[id],
                         [question |-> last'.req.question,
                          answer |-> last'.resp.answer])
             /\ \A other \in Ids \ {id} :
                  chatHistory'[other] = chatHistory[other]
       /\ (Answers /\ last'.req.op = "ask" /\ last'.req.id = id)
            => Len(chatHistory'[id]) = Len(chatHistory[id])
                 + (IF last'.resp.answer # "" THEN 1 ELSE 0)]_vars

C9_Witness ==
  \E id \in Ids :
    /\ Len(chatHistory[id]) = 2
    /\ last.req.op = "ask"
    /\ last.resp.code = 500

\* C10: an analysis that is 'processing' eventually is 'completed' or 'error'
\* and out of the processing queue.
C10_RunEnds ==
  \A id \in Ids :
    (Stored(id) /\ Status(id) = "processing")
      ~> (Stored(id) /\ Status(id) \in {"completed", "error"}
            /\ id \notin processingQueue)

Range(s) == { s[i] : i \in 1..Len(s) }

\* the result calculateMatchScore returned to the run that just completed
MatchResults ==
  { analysisStorage[id].results[1] :
      id \in { i \in DOMAIN analysisStorage :
                 analysisStorage[i].status = "completed" } }

\* the summary of a result: a field of its own or of its structured analysis
HasSummary(r) ==
  \/ "summary" \in DOMAIN r
  \/ /\ r.structuredAnalysis # << >>
     /\ "summary" \in DOMAIN r.structuredAnalysis[1]

\* the provider step failed: the result carries no structured analysis
Degraded(r) == r.structuredAnalysis = << >>

\* C11: every result of calculateMatchScore, on the primary path and in
\* degraded mode alike, holds a score that is an integer from 0 to 100, the
\* strengths, the gaps, the insights and a summary.
C11_UniformShape ==
  \A r \in MatchResults :
    /\ r.matchScore \in 0..100
    /\ {"strengths", "gaps", "insights"} \subseteq DOMAIN r
    /\ HasSummary(r)

\* C12: when the provider step of the scoring fails, the score of the result
\* is the skill-overlap heuristic's, round(100 * matched / required) over the
\* skills of the two texts, 0 when no skill is required.
C12_DegradedIsHeuristic ==
  [][\A p \in Procs :
       (pc[p] = "match" /\ Answers /\ last'.req = req[p]
          /\ Degraded(last'.resp.results[1]))
       => last'.resp.results[1].matchScore =
            generateBasicAnalysis(loc[p].resumeText, loc[p].jobText).score]_vars

\* C19: for the role document "Requires Kubernetes, AWS, Python" and the
\* candidate document "5 years Python and AWS" the fallback scorer finds the
\* required skills Kubernetes, AWS and Python, the matched skills AWS and
\* Python, and the score 67.
C19_ScenarioA ==
  \A p \in Procs :
    (pc[p] = "match" /\ last.req.op = "generateBasicAnalysis"
       /\ loc[p].jobText = RoleA /\ loc[p].resumeText = CandidateA)
    => /\ Range(last.resp.results[1].jobSkills) = {wKubernetes, wAWS, wPython}
       /\ Range(last.resp.results[1].matchedSkills) = {wAWS, wPython}
       /\ last.resp.results[1].score = 67

\* C20: for an empty candidate document and a role document that is not
\* empty the fallback scorer yields the score 0, no strength, and as gaps
\* every skill extracted from the role document.
C20_ScenarioB ==
  \A p \in Procs :
    (pc[p] = "match" /\ last.req.op = "generateBasicAnalysis"
       /\ loc[p].resumeText = NoWords /\ loc[p].jobText # NoWords)
    => /\ last.resp.results[1].score = 0
       /\ last.resp.results[1].experienceMatch.strong = << >>
       /\ Range(last.resp.results[1].experienceMatch.weak) =
            Range(last.resp.results[1].jobSkills)

\* the call of generateEmbeddings made by p returns in this step
EmbeddingsReturn(p) ==
  /\ pc[p] \in {"generate", "embed"}
  /\ loc'[p].doc # loc[p].doc \/ pc'[p] = "store_resume"

\* C13: whatever provider calls fail, generateEmbeddings returns one entry for
\* each chunk, in the chunks' order, the entry of chunk i (from zero) with id i
\* and the chunk as its text; the run is not ended by a failure.
C13_OneEntryPerChunk ==
  [][\A p \in Procs : EmbeddingsReturn(p) =>
       LET chunks == loc[p].chunks
           embs == IF loc[p].doc = "resume" THEN loc'[p].resumeEmbs
                   ELSE loc'[p].jobEmbs
       IN /\ Len(embs) = Len(chunks)
          /\ \A i \in 1..Len(chunks) :
               /\ embs[i].id = i - 1
               /\ embs[i].text = chunks[i]
               /\ embs[i].embedding \in
                    {providerEmbedding(chunks[i]), mockEmbedding(chunks[i])}
          /\ analysisStorage'[req[p].id].status = "processing"]_vars

C13_Witness ==
  \E p \in Procs :
    /\ pc[p] = "store_resume"
    /\ Len(loc[p].resumeEmbs) = 4
    /\ loc[p].resumeEmbs[1].embedding = mockEmbedding(loc[p].resumeEmbs[1].text)
    /\ loc[p].resumeEmbs[2].embedding = providerEmbedding(loc[p].resumeEmbs[2].text)
    /\ loc[p].resumeEmbs[3].embedding = mockEmbedding(loc[p].resumeEmbs[3].text)
    /\ loc[p].resumeEmbs[4].embedding = providerEmbedding(loc[p].resumeEmbs[4].text)
    /\ Len(loc[p].jobEmbs) = 1

\* C17: once the gateway has cached a model, a resolve that starts afterwards
\* sends no probe, and no step clears the cache or replaces the cached model.
C17_CacheIsKept ==
  [][workingModelName # "" =>
       /\ workingModelName' = workingModelName
       /\ \A p \in Procs : pc[p] # "probe" => pc'[p] # "probe"]_vars

\* C18: when the probe of the last model of the preference list fails for a
\* resolve whose earlier probes all failed, the resolve fails: the cache is
\* left as it is and the caller does not go on with a model.
C18_AllProbesFail ==
  [][\A p \in Procs :
       (pc[p] = "probe" /\ pc'[p] # "probe"
          /\ loc[p].k = Len(PREFERRED_MODELS)
          /\ workingModelName' # PREFERRED_MODELS[Len(PREFERRED_MODELS)])
       => /\ workingModelName' = workingModelName
          /\ pc'[p] # loc[p].ret]_vars

\* the chunks of paragraph i, in their order
ChunksOf(chunks, i) == SelectSeq(chunks, LAMBDA c : c.para = i)

RECURSIVE Flatten(_)
Flatten(ss) == IF ss = << >> THEN << >> ELSE Head(ss).sents \o Flatten(Tail(ss))

\* C16: every chunk processDocument returns is at most 800 characters long
\* unless it is one sentence that is longer itself; the chunks are the
\* paragraphs' sentences, whole and in order; and within a paragraph a chunk
\* ends only where the next sentence, joined by one space, would pass 800.
C16_GreedyChunks ==
  [][\A p \in Procs : (pc[p] = "extract" /\ pc'[p] = "generate") =>
       LET text == loc'[p].resumeText
           chunks == loc'[p].chunks
       IN /\ \A k \in 1..Len(chunks) :
               \/ JoinedLen(chunks[k].sents) <= chunkSize
               \/ Len(chunks[k].sents) = 1 /\ chunks[k].sents[1] > chunkSize
          /\ \A k \in 1..Len(chunks) :
               /\ chunks[k].para \in 1..Len(text)
               /\ chunks[k].sents # << >>
               /\ k > 1 => chunks[k - 1].para <= chunks[k].para
          /\ \A i \in 1..Len(text) :
               Flatten(ChunksOf(chunks, i)) = text[i].sents
          /\ \A k \in 1..Len(chunks) - 1 :
               chunks[k].para = chunks[k + 1].para =>
                 JoinedLen(chunks[k].sents) + 1 + chunks[k + 1].sents[1]
                   > chunkSize]_vars

\* a paragraph of 399, 400 and 801 characters gave a chunk of exactly 800
\* characters and the long sentence as a chunk of its own; a paragraph of 400,
\* 400 and 10 was split after its first sentence
C16_Witness ==
  \E p \in Procs :
    /\ pc[p] = "generate"
    /\ loc[p].resumeText =
         << [sents |-> << 399, 400, 801 >>, key |-> FALSE],
            [sents |-> << 400, 400, 10 >>, key |-> FALSE] >>
    /\ loc[p].chunks =
         << [para |-> 1, sents |-> << 399, 400 >>],
            [para |-> 1, sents |-> << 801 >>],
            [para |-> 2, sents |-> << 400 >>],
            [para |-> 2, sents |-> << 400, 10 >>] >>

\* C14: a search under an identifier that has no key in the vector store
\* returns no row and raises nothing, whatever is stored under the other
\* identifiers: the controller goes on with its fallback context, or answers
\* that there is no context; it never answers with a search failure.
C14_UnknownIdIsEmpty ==
  [][\A p \in Procs :
       (/\ pc[p] = "search"
        /\ pc'[p] # "search"
        /\ \A type \in {"resume", "job"} :
             << req[p].id, type >> \notin DOMAIN vectorStore)
       => LET fallback ==
                RelevantContext(<< >>,
                                StoredResumeText(globalStorage[req[p].id]))
          IN \/ /\ pc'[p] = "answer"
                /\ loc'[p].found = << >>
                /\ loc'[p].context = fallback
                /\ fallback # << >>
             \/ /\ pc'[p] = "idle"
                /\ fallback = << >>
                /\ last'.resp.code = 400
                /\ last'.resp.error =
                     "No context available to answer this question"]_vars

\* a question on identifier 2 was answered from the fallback context while
\* rows were stored under identifier 1
C14_Witness ==
  /\ last.req.op = "ask"
  /\ last.req.id = 2
  /\ last.resp.code = 200
  /\ last.resp.sources # << >>
  /\ << 1, "resume" >> \in DOMAIN vectorStore
  /\ vectorStore[<< 1, "resume" >>] # << >>
  /\ \A type \in {"resume", "job"} : << 2, type >> \notin DOMAIN vectorStore

\* the place in all of the row that the result row r was made from
PlaceOf(all, r) ==
  CHOOSE j \in 1..Len(all) : all[j].id = r.id /\ all[j].text = r.text

\* the rows stored under a key, none when the key is absent
RowsUnder(id, type) ==
  IF << id, type >> \in DOMAIN vectorStore THEN vectorStore[<< id, type >>]
  ELSE << >>

\* C15: a search reads the rows stored under the identifier, the resume rows
\* before the job rows.  The rows it returns are at most five (all of them
\* when there are fewer), each one a different row it read, with its cosine
\* similarity to the query; they are in non-increasing order of similarity,
\* rows of equal similarity in the order they were read in; no row left out
\* has a higher similarity than a returned one.
C15_RankedTopFive ==
  [][\A p \in Procs :
       /\ (pc[p] = "search" /\ pc'[p] = "search_embed")
          => loc'[p].rows = RowsUnder(req[p].id, "resume")
                              \o RowsUnder(req[p].id, "job")
       /\ (pc[p] = "search_embed" /\ pc'[p] = "answer"
             /\ loc'[p].query # << >>)
          =>
          LET all == loc[p].rows
              query == loc'[p].query
              found == loc'[p].found
              place(i) == PlaceOf(all, found[i])
          IN /\ Len(found) = IF Len(all) < TopK THEN Len(all) ELSE TopK
             /\ \A i \in 1..Len(found) :
                  /\ \E j \in 1..Len(all) :
                       /\ all[j].id = found[i].id
                       /\ all[j].text = found[i].text
                  /\ found[i].embedding = all[place(i)].embedding
                  /\ found[i].similarity =
                       cosineSimilarity(query, all[place(i)].embedding)
             /\ \A i, k \in 1..Len(found) : i # k => place(i) # place(k)
             /\ \A i \in 1..Len(found) - 1 :
                  /\ ~Less(found[i].similarity, found[i + 1].similarity)
                  /\ found[i].similarity = found[i + 1].similarity
                       => place(i) < place(i + 1)
             /\ \A j \in 1..Len(all) :
                  (\A i \in 1..Len(found) : place(i) # j)
                  => \A i \in 1..Len(found) :
                       ~Less(found[i].similarity,
                             cosineSimilarity(query, all[j].embedding))]_vars

\* five of six rows were returned, not in the store's order, two of them of
\* equal similarity and two of different similarity
C15_Witness ==
  \E p \in Procs :
    /\ pc[p] = "answer"
    /\ Len(loc[p].rows) = 6
    /\ Len(loc[p].found) = TopK
    /\ \E i \in 1..TopK - 1 :
         loc[p].found[i].similarity = loc[p].found[i + 1].similarity
    /\ \E i \in 1..TopK - 1 :
         Less(loc[p].found[i + 1].similarity, loc[p].found[i].similarity)
    /\ loc[p].found[1].text # loc[p].rows[1].text

\* the resolve of p takes a step: a probe's outcome arrives
ProbeStep(p) ==
  /\ pc[p] = "probe"
  /\ pc'[p] # "probe" \/ loc'[p] # loc[p]

\* C21: a resolve on an empty cache probes the preference list in order; a
\* step that goes on probing goes on with the next model of the list, after a
\* probe that did not answer; a probe that answers without an error ends the
\* resolve, its model cached and returned to the caller.
C21_FirstAnswerWins ==
  [][\A p \in Procs : ProbeStep(p) =>
       /\ pc'[p] = "probe" =>
            /\ loc'[p].k = loc[p].k + 1
            /\ loc'[p].probe = "error"
       /\ loc'[p].probe # "error" =>
            /\ workingModelName' = PREFERRED_MODELS[loc[p].k]
            /\ pc'[p] = loc[p].ret]_vars

\* C22: once a resolve has cached a model, a resolve that was probing at that
\* time and ends later leaves the cached model in place.
C22_FirstWriterWins ==
  [][\A p \in Procs :
       (ProbeStep(p) /\ workingModelName # "")
       => workingModelName' = workingModelName]_vars

\* the entries generateEmbeddings has made so far, in all runs
MadeEntries ==
  UNION { Range(loc[p].embs) \cup Range(loc[p].resumeEmbs)
            \cup Range(loc[p].jobEmbs) : p \in Procs }

\* the entry holds the vector substituted for the provider's
IsFallback(e) ==
  e.embedding \notin {providerEmbedding(e.text), wideEmbedding(e.text)}

C24_OneDimensionPerBatch ==
  \A p \in Procs :
    /\ \A e1, e2 \in Range(loc[p].resumeEmbs) :
         Len(e1.embedding) = Len(e2.embedding)
    /\ \A e1, e2 \in Range(loc[p].jobEmbs) :
         Len(e1.embedding) = Len(e2.embedding)

IsZeroVector(v) == \A i \in 1..Len(v) : v[i] = 0

\* C25: the similarity a search computes for a row and the query is the same
\* with the two vectors exchanged; it lies between -1 and 1 when the vectors
\* have the same length; it is 0 when the lengths differ or one of the vectors
\* is the zero vector.
C25_SymmetricAndBounded ==
  [][\A p \in Procs :
       (pc[p] = "search_embed" /\ pc'[p] = "answer" /\ loc'[p].query # << >>)
       => \A i \in 1..Len(loc'[p].found) :
            LET a == loc'[p].query
                b == loc'[p].found[i].embedding
                sim == loc'[p].found[i].similarity
            IN /\ sim = cosineSimilarity(a, b)
               /\ sim = cosineSimilarity(b, a)
               /\ Len(a) = Len(b) =>
                    /\ ~Less(Ratio(1, 1), sim)
                    /\ ~Less(sim, Ratio(-1, 1))
               /\ (Len(a) # Len(b) \/ IsZeroVector(a) \/ IsZeroVector(b))
                    => sim = Ratio(0, 1)]_vars

\* the text has a block with the title; the place of the first one
HasTitle(text, title) == \E i \in 1..Len(text) : title \in text[i].marks
FirstTitle(text, title) ==
  CHOOSE i \in 1..Len(text) :
    /\ title \in text[i].marks
    /\ \A j \in 1..(i - 1) : title \notin text[j].marks

\* the title that opens a section is missing, or the one that ends it is, or
\* the two are not in this order
NotDelimited(text, start, end) ==
  \/ ~HasTitle(text, start)
  \/ ~HasTitle(text, end)
  \/ FirstTitle(text, end) <= FirstTitle(text, start)

\* the narrative names a score and has its four titles in order, each list
\* section with an item
WellFormed(text) ==
  /\ \E i \in 1..Len(text) : text[i].score # << >>
  /\ \A t \in Titles : HasTitle(text, t)
  /\ FirstTitle(text, "Strengths Identified") + 1
       < FirstTitle(text, "Gaps Identified")
  /\ FirstTitle(text, "Gaps Identified") + 1 < FirstTitle(text, "Key Insights")
  /\ FirstTitle(text, "Key Insights") + 1 < FirstTitle(text, "Resume Summary")

\* C26: when the provider answers with a well-formed narrative, the result of
\* the run has the score of the narrative's score line and, as strengths,
\* gaps and insights, the items of the narrative's three sections.
C26_ResultFromNarrative ==
  [][\A p \in Procs :
       (/\ pc[p] = "match"
        /\ Answers
        /\ last'.req = req[p]
        /\ loc[p].analysisText # << >>
        /\ WellFormed(loc[p].analysisText[1]))
       => LET text == loc[p].analysisText[1]
              result == last'.resp.results[1]
          IN /\ << result.matchScore >> = overallMatch(text)
             /\ result.strengths = parseAnalysisText(text).strengths
             /\ result.gaps = parseAnalysisText(text).gaps
             /\ result.insights = parseAnalysisText(text).insights]_vars

\* C27: whatever text the provider answers with, parseAnalysisText yields an
\* analysis and the run completes; a section whose opening title or closing
\* title is missing, or whose titles are not in order, is empty; the summary
\* is empty when its title is missing; there is no score when no block has a
\* score line.
C27_ParseNeverFails ==
  [][\A p \in Procs :
       (pc[p] = "match" /\ Answers /\ loc[p].analysisText # << >>)
       => LET text == loc[p].analysisText[1]
              parsed == IF last'.req.op = "parseAnalysisText"
                        THEN last'.resp.results
                        ELSE last'.resp.results[1].structuredAnalysis
          IN /\ last'.req.op # "parseAnalysisText" =>
                  /\ last'.resp.code = 200
                  /\ analysisStorage'[req[p].id].status = "completed"
             /\ Len(parsed) = 1
             /\ NotDelimited(text, "Strengths Identified", "Gaps Identified")
                  => parsed[1].strengths = << >>
             /\ NotDelimited(text, "Gaps Identified", "Key Insights")
                  => parsed[1].gaps = << >>
             /\ NotDelimited(text, "Key Insights", "Resume Summary")
                  => parsed[1].insights = << >>
             /\ ~HasTitle(text, "Resume Summary") => parsed[1].summary = << >>
             /\ (\A i \in 1..Len(text) : text[i].score = << >>)
                  => parsed[1].overallMatch = << >>]_vars

\* a text with the strengths title and an item but no gaps title, and no
\* score line, was parsed: no strengths, no score, the insights found
C27_Witness ==
  \E p \in Procs :
    /\ pc[p] = "match"
    /\ last.req.op = "parseAnalysisText"
    /\ loc[p].analysisText # << >>
    /\ LET text == loc[p].analysisText[1] IN
         /\ Len(text) = MaxBlocks
         /\ text[1].marks = {"Strengths Identified"}
         /\ text[2].marks = {} /\ ~text[2].blank /\ text[2].score = << >>
         /\ text[3].marks = {"Resume Summary"}
         /\ text[4].marks = {"Key Insights"}
    /\ last.resp.results[1].strengths = << >>
    /\ last.resp.results[1].insights = << >>
    /\ last.resp.results[1].overallMatch = << >>
    /\ last.resp.results[1].summary # << >>

\* the document with one more term at its end, after white space or a comma
AddTerm(text, term, glue) ==
  IF text = << >> THEN << Word(term, "end") >>
  ELSE [text EXCEPT ![Len(text)].glue = glue] \o << Word(term, "end") >>

SkillTerms == { wAWS, wDocker, wKubernetes }

\* C28: for a fixed role document, the fallback scorer finds at least as many
\* matched skills, and at least as high a score, for the candidate document
\* with one more skill term as for the candidate document itself.
C28_MonotonicInSkills ==
  \A p \in Procs :
    (pc[p] = "match" /\ last.req.op = "generateBasicAnalysis")
    => \A term \in SkillTerms, glue \in {"space", "comma"} :
         LET more == generateBasicAnalysis(
                       AddTerm(loc[p].resumeText, term, glue), loc[p].jobText)
         IN /\ Len(more.matchedSkills)
                 >= Len(last.resp.results[1].matchedSkills)
            /\ more.score >= last.resp.results[1].score

\* C29: between any two steps of the server an identifier is in the
\* processing set exactly when its record's status is 'processing'; a run that
\* ends, completed or failed, leaves the set in the step that ends it.
C29_QueuedIffProcessing ==
  \A id \in Ids :
    id \in processingQueue <=> (Stored(id) /\ Status(id) = "processing")

\* a run has just failed in one of its steps: its identifier
\* has left the processing set
C29_Witness ==
  \E id \in Ids :
    /\ last.req = AnalyzeRequest(id)
    /\ last.resp.code = 500
    /\ "extract" \in last.steps
    /\ Stored(id) /\ Status(id) = "error"
    /\ id \notin processingQueue

\* C30: a completed analysis has its results (score, strengths, gaps,
\* insights and the two texts) and the vector store has an entry under its
\* resume key and under its job key; an uploaded analysis has no results and
\* the vector store has no entry under either of its keys.
C30_StatusDeterminesData ==
  \A id \in Ids :
    Stored(id) =>
      /\ Status(id) = "completed" =>
           /\ Len(analysisStorage[id].results) = 1
           /\ DOMAIN analysisStorage[id].results[1] =
                {"matchScore", "strengths", "gaps", "insights",
                 "structuredAnalysis", "resumeText", "jobDescriptionText"}
           /\ << id, "resume" >> \in DOMAIN vectorStore
           /\ << id, "job" >> \in DOMAIN vectorStore
      /\ Status(id) = "uploaded" =>
           /\ analysisStorage[id].results = << >>
           /\ << id, "resume" >> \notin DOMAIN vectorStore
           /\ << id, "job" >> \notin DOMAIN vectorStore

\* one analysis is completed while another is still uploaded
C30_Witness ==
  \E id \in Ids, other \in Ids :
    /\ Stored(id) /\ Status(id) = "completed"
    /\ analysisStorage[id].results # << >>
    /\ {<< id, "resume" >>, << id, "job" >>} \subseteq DOMAIN vectorStore
    /\ Stored(other) /\ Status(other) = "uploaded"

====
